---------------------------- MODULE Spec2Model ----------------------------
(***************************************************************************)
(* A model of the DePIN compatibility predictor                            *)
(* (internal/service/compatibility.go, internal/models, internal/data).    *)
(*                                                                         *)
(* The service holds a catalog of projects, fixed at construction.         *)
(* PredictCompatibility scores one SystemSpec against every project of the *)
(* catalog, partitions and sorts the results and derives a summary and     *)
(* recommendations.                                                        *)
(*                                                                         *)
(* Scores are Go float64 values.  They are modelled bit for bit: a float64 *)
(* is the integer N = value * 2^58, kept as two limbs N = hi * 2^30 + lo   *)
(* with 0 <= lo < 2^30 (hi carries the sign), and every addition and       *)
(* subtraction rounds to 53 significant bits, ties to even, as IEEE-754    *)
(* does.  Every score constant of the code (0.02 .. 1.0) and every sum of  *)
(* them is a multiple of 2^-58, so the representation is exact.  The two   *)
(* quotients of the summary (the rate and the average) are float64 values  *)
(* of any magnitude: they carry an exponent beside the limbs.              *)
(*                                                                         *)
(* Strings the code inspects (OS names, supported_os, the diagnostics) are *)
(* sequences of one-character strings, so that split, trim, formatting and *)
(* substring search are computed and not assumed.                          *)
(***************************************************************************)
EXTENDS Integers, Sequences, FiniteSets, TLC

-----------------------------------------------------------------------------
(* float64 arithmetic *)

\* The limb base 2^30.
LimbBase == 1073741824

RECURSIVE Pow2(_)
Pow2(k) == IF k = 0 THEN 1 ELSE 2 * Pow2(k - 1)

\* The float64 with limbs hi, lo.
F64(h, l) == [hi |-> h, lo |-> l]

\* The float64 literals of the code, as value * 2^58 split at 2^30.
F_0    == F64(0, 0)
F_1    == F64(268435456, 0)
F_0_02 == F64(5368709, 128849019)
F_0_03 == F64(8053063, 730144440)
F_0_05 == F64(13421772, 858993460)
F_0_1  == F64(26843545, 644245096)
F_0_15 == F64(40265318, 429496728)
F_0_2  == F64(53687091, 214748368)
F_0_25 == F64(67108864, 0)
F_0_3  == F64(80530636, 858993456)
F_0_4  == F64(107374182, 429496736)
F_0_6  == F64(161061273, 644245088)
F_0_8  == F64(214748364, 858993472)

\* -x: exact (the limbs are negated, an exponent is kept).
F64Neg(x) ==
    IF x.lo = 0 THEN [x EXCEPT !.hi = 0 - x.hi]
    ELSE [x EXCEPT !.hi = 0 - x.hi - 1, !.lo = LimbBase - x.lo]

\* x < y, x <= y, x > y, x >= y on float64 values (no NaN arises).
F64Lt(x, y) == x.hi < y.hi \/ (x.hi = y.hi /\ x.lo < y.lo)
F64Leq(x, y) == ~F64Lt(y, x)
F64Gt(x, y) == F64Lt(y, x)
F64Geq(x, y) == ~F64Lt(x, y)

\* The exponent k of the spacing 2^k (in units of the low limb) of the
\* float64 values around a value whose magnitude has the high limb m: the
\* least k with m * 2^30 < 2^(53 + k), 0 when m is below 2^23 = 8388608.
RECURSIVE F64UlpExpFrom(_, _)
F64UlpExpFrom(m, k) ==
    IF m < 8388608 THEN k ELSE F64UlpExpFrom(m \div 2, k + 1)

\* The exact value x (a multiple of 2^-58, of either sign) rounded to the
\* nearest float64, ties to even; the high limb of the magnitude of x is
\* floor(|x| * 2^58 / 2^30).
F64Round(x) ==
    LET k    == F64UlpExpFrom(IF x.hi >= 0 THEN x.hi
                              ELSE IF x.lo = 0 THEN 0 - x.hi
                              ELSE 0 - x.hi - 1, 0)
        u    == Pow2(k)
        r    == x.lo % u
        base == x.lo - r
        up   == (2 * r > u) \/ (2 * r = u /\ (base \div u) % 2 = 1)
        lo2  == IF up THEN base + u ELSE base
    IN  IF lo2 >= LimbBase THEN F64(x.hi + 1, lo2 - LimbBase)
        ELSE F64(x.hi, lo2)

\* The exact sum of two float64 values, before rounding.
F64ExactAdd(x, y) ==
    LET l == x.lo + y.lo
    IN  IF l >= LimbBase THEN F64(x.hi + y.hi + 1, l - LimbBase)
        ELSE F64(x.hi + y.hi, l)

\* x + y and x - y as float64 operations.
F64Add(x, y) == F64Round(F64ExactAdd(x, y))
F64Sub(x, y) == F64Round(F64ExactAdd(x, F64Neg(y)))

\* The result of a division of 0.0 by 0.0.
F64NaN == [nan |-> TRUE]

\* A float64 with an exponent, the result of a division or of a
\* multiplication: the value is (hi * 2^30 + lo) * 2^(exp - 58).  0.0 is
\* F64Scaled(0, 0, 0); every other value is held with 2^28 <= hi < 2^29
\* (the limbs are the significand, in [1, 2)), so that each float64 has one
\* form; a negative value has the limbs of its magnitude negated.
F64Scaled(h, l, e) == [hi |-> h, lo |-> l, exp |-> e]

\* The value x * 2^e of the limbs x in that form: halved, or doubled (14,
\* 4 or 1 times at once), until the high limb is in [2^28, 2^29).  Exact
\* when no odd low limb is halved, as for an integer, a float64 of the
\* scorer or a rounded significand.
RECURSIVE F64Normal(_, _)
F64Normal(x, e) ==
    IF x.hi = 0 /\ x.lo = 0 THEN F64Scaled(0, 0, 0)
    ELSE IF x.hi < 0 THEN F64Neg(F64Normal(F64Neg(x), e))
    ELSE IF x.hi >= 2 * F_1.hi
    THEN F64Normal(F64(x.hi \div 2, (x.hi % 2) * 536870912 + (x.lo \div 2)),
                   e + 1)
    ELSE IF x.hi >= F_1.hi THEN F64Scaled(x.hi, x.lo, e)
    ELSE IF x.hi < 16384
    THEN F64Normal(F64(16384 * x.hi + (x.lo \div 65536),
                       16384 * (x.lo % 65536)), e - 14)
    ELSE IF x.hi < 16777216
    THEN F64Normal(F64(16 * x.hi + (x.lo \div 67108864),
                       16 * (x.lo % 67108864)), e - 4)
    ELSE F64Normal(F64(2 * x.hi + (x.lo \div 536870912),
                       2 * (x.lo % 536870912)), e - 1)

\* The exact value d (limbs d.hi >= 2^23 and d.lo at the exponent d.exp,
\* plus a positive excess below one unit of the low limb when d.sticky)
\* rounded to the nearest float64, ties to even.  With d.hi >= 2^23 the
\* spacing is at least two units, so the half is a whole number of units.
F64RoundSticky(d) ==
    LET u    == Pow2(F64UlpExpFrom(d.hi, 0))
        r    == d.lo % u
        base == d.lo - r
        up   == \/ 2 * r > u
                \/ 2 * r = u /\ (d.sticky \/ (base \div u) % 2 = 1)
        lo2  == IF up THEN base + u ELSE base
    IN  IF lo2 >= LimbBase THEN F64Normal(F64(d.hi + 1, lo2 - LimbBase), d.exp)
        ELSE F64Normal(F64(d.hi, lo2), d.exp)

\* The long division of a float64 x > 0 by float64(n), 0 < n <= 2^30, one
\* bit at a time (eight to a call): s.hi, s.lo and s.exp hold the bits of
\* the dividend not yet taken (s.k of them significant, zeros after them),
\* s.r the remainder and s.qh, s.ql the limbs of the quotient so far.  It
\* stops when every bit of the dividend is taken and the quotient has 59
\* bits, 2^28 <= s.qh < 2^29: 53 for the float64, 6 below them and the
\* remainder for the rounding.  Each zero taken after the dividend lowers
\* the exponent by one.
RECURSIVE F64DivBits(_, _)
F64DivBits(s, n) ==
    LET Bit(t) ==
            IF t.k <= 0 /\ t.qh >= F_1.hi THEN t
            ELSE LET r2  == 2 * t.r + (t.hi \div F_1.hi)
                     bit == IF r2 >= n THEN 1 ELSE 0
                 IN  [hi  |-> 2 * (t.hi % F_1.hi) + (t.lo \div 536870912),
                      lo  |-> 2 * (t.lo % 536870912),
                      exp |-> IF t.k <= 0 THEN t.exp - 1 ELSE t.exp,
                      r   |-> r2 - bit * n,
                      qh  |-> 2 * t.qh + (t.ql \div 536870912),
                      ql  |-> 2 * (t.ql % 536870912) + bit,
                      k   |-> t.k - 1]
    IN  IF s.k <= 0 /\ s.qh >= F_1.hi
        THEN [hi |-> s.qh, lo |-> s.ql, exp |-> s.exp, sticky |-> s.r # 0]
        ELSE F64DivBits(Bit(Bit(Bit(Bit(Bit(Bit(Bit(Bit(s)))))))), n)

\* x / float64(n) for a float64 x (in the form of F64Scaled) and an integer
\* 0 <= n <= 2^30: the quotient of the magnitude rounded to the nearest
\* float64, with the sign of x.  The code divides by 0.0 only 0.0 (no
\* project, so no score and no result), which is NaN.  For n < 2^15 the
\* long division goes by limbs: the high limb, twice 15 bits of the low
\* limb, and after the dividend as many zero bits (at most 15) as bring the
\* quotient to 59 bits; the result is that of F64DivBits.
F64DivInt(x, n) ==
    IF n = 0 THEN F64NaN
    ELSE IF x.hi = 0 /\ x.lo = 0 THEN x
    ELSE LET m  == IF x.hi < 0 THEN F64Neg(x) ELSE x
             r1 == m.hi % n
             l1 == r1 * 32768 + (m.lo \div 32768)
             r2 == l1 % n
             l2 == r2 * 32768 + (m.lo % 32768)
             q  == F64Normal(F64(m.hi \div n,
                                 (l1 \div n) * 32768 + (l2 \div n)), m.exp)
             t  == (l2 % n) * Pow2(m.exp - q.exp)
             d  == IF n < 32768
                   THEN F64RoundSticky([hi     |-> q.hi,
                                        lo     |-> q.lo + (t \div n),
                                        exp    |-> q.exp,
                                        sticky |-> (t % n) # 0])
                   ELSE F64RoundSticky(F64DivBits(
                            [hi |-> m.hi, lo |-> m.lo, exp |-> m.exp,
                             r |-> 0, qh |-> 0, ql |-> 0, k |-> 59], n))
         IN  IF x.hi < 0 THEN F64Neg(d) ELSE d

\* float64(c) / float64(n) for integers c >= 0 and 0 <= n <= 2^30 (n = 0
\* only with c = 0); float64(c) is c * 2^30 at the exponent 28.
F64Quotient(c, n) == F64DivInt(F64Normal(F64(c, 0), 28), n)

\* x * 100 for a float64 x >= 0 (in the form of F64Scaled) or NaN: the
\* exact product 25 * x in limbs of 15 bits (p0, p1, p2 and the unbounded
\* p3), divided by 32, rounded to the nearest float64, 7 exponents up.
F64Times100(x) ==
    IF x = F64NaN \/ (x.hi = 0 /\ x.lo = 0) THEN x
    ELSE LET p0   == 25 * (x.lo % 32768)
             p1   == 25 * (x.lo \div 32768) + (p0 \div 32768)
             p2   == 25 * (x.hi % 32768) + (p1 \div 32768)
             p3   == 25 * (x.hi \div 32768) + (p2 \div 32768)
             top  == (p3 % 32) * 32768 + (p2 % 32768)
             rest == (p1 % 32768) * 32768 + (p0 % 32768)
         IN  F64RoundSticky([hi     |-> (p3 \div 32) * 32768 + (top \div 32),
                             lo     |-> (top % 32) * 33554432 + (rest \div 32),
                             exp    |-> x.exp + 7,
                             sticky |-> (rest % 32) # 0])

\* x <= y for float64 values x, y >= 0 (in the form of F64Scaled) or NaN:
\* false when either is NaN, as every comparison of Go.
F64ScaledLeq(x, y) ==
    /\ x # F64NaN
    /\ y # F64NaN
    /\ \/ x.hi = 0 /\ x.lo = 0
       \/ /\ y.hi # 0 \/ y.lo # 0
          /\ \/ x.exp < y.exp
             \/ x.exp = y.exp /\ F64Leq(x, y)

\* math.Min and math.Max.
F64Min(x, y) == IF F64Lt(y, x) THEN y ELSE x
F64Max(x, y) == IF F64Lt(x, y) THEN y ELSE x

-----------------------------------------------------------------------------
(* strings: a string is a sequence of one-character strings *)

\* The characters strings.TrimSpace removes: the Unicode White_Space
\* characters, of which a string of this module (characters up to U+00FF)
\* can hold the tab, the line feed, the vertical tab (U+000B), the form
\* feed, the carriage return, the space, the next line (U+0085) and the
\* no-break space (U+00A0).
WhiteSpace == {" ", "\t", "\n", "\r", "\f", "", "", " "}

\* strings.TrimSpace, leading part.
RECURSIVE TrimLeft(_)
TrimLeft(s) ==
    IF s # <<>> /\ Head(s) \in WhiteSpace THEN TrimLeft(Tail(s)) ELSE s

\* strings.TrimSpace, trailing part.
RECURSIVE TrimRight(_)
TrimRight(s) ==
    IF s # <<>> /\ s[Len(s)] \in WhiteSpace
    THEN TrimRight(SubSeq(s, 1, Len(s) - 1))
    ELSE s

\* strings.TrimSpace(s).
TrimSpace(s) == TrimRight(TrimLeft(s))

\* strings.Split(s, ","): the fields between the commas, in order; a string
\* without a comma (the empty one too) gives one field.
RECURSIVE SplitFrom(_, _)
SplitFrom(s, cur) ==
    IF s = <<>> THEN <<cur>>
    ELSE IF Head(s) = "," THEN <<cur>> \o SplitFrom(Tail(s), <<>>)
    ELSE SplitFrom(Tail(s), Append(cur, Head(s)))

\* strings.Contains(s, sub).
StrContains(s, sub) ==
    \/ sub = <<>>
    \/ \E i \in 1..(Len(s) - Len(sub) + 1) :
          /\ s[i] = sub[1]
          /\ SubSeq(s, i, i + Len(sub) - 1) = sub

\* The decimal digits.
Digits == <<"0", "1", "2", "3", "4", "5", "6", "7", "8", "9">>

\* fmt's %d of a non-negative integer.
RECURSIVE NatToStr(_)
NatToStr(n) ==
    IF n < 10 THEN <<Digits[n + 1]>>
    ELSE Append(NatToStr(n \div 10), Digits[(n % 10) + 1])

\* fmt's %d.
IntToStr(n) == IF n < 0 THEN <<"-">> \o NatToStr(0 - n) ELSE NatToStr(n)

\* The string literals of the code.
S_CPU_need ==
    <<"C", "P", "U", " ", "c", "o", "r", "e", "s", ":", " ", "n", "e", "e", "d", " ">>
S_have ==
    <<",", " ", "h", "a", "v", "e", " ">>
S_RAM_need ==
    <<"R", "A", "M", ":", " ", "n", "e", "e", "d", " ">>
S_GB_have ==
    <<"G", "B", ",", " ", "h", "a", "v", "e", " ">>
S_GB ==
    <<"G", "B">>
S_RAM_upgrade ==
    <<"R", "A", "M", " ", "u", "p", "g", "r", "a", "d", "e", " ", "t", "o", " ">>
S_GB_recommended ==
    <<"G", "B", " ", "r", "e", "c", "o", "m", "m", "e", "n", "d", "e", "d", " ", "f", "o", "r", " ", "o", "p", "t", "i", "m", "a", "l", " ", "p", "e", "r", "f", "o", "r", "m", "a", "n", "c", "e">>
S_Storage_need ==
    <<"S", "t", "o", "r", "a", "g", "e", ":", " ", "n", "e", "e", "d", " ">>
S_SSD_required ==
    <<"S", "S", "D", " ", "s", "t", "o", "r", "a", "g", "e", " ", "r", "e", "q", "u", "i", "r", "e", "d">>
S_GPU_required ==
    <<"D", "e", "d", "i", "c", "a", "t", "e", "d", " ", "G", "P", "U", " ", "r", "e", "q", "u", "i", "r", "e", "d">>
S_VRAM_need ==
    <<"G", "P", "U", " ", "V", "R", "A", "M", ":", " ", "n", "e", "e", "d", " ">>
S_Network_need ==
    <<"N", "e", "t", "w", "o", "r", "k", " ", "s", "p", "e", "e", "d", ":", " ", "n", "e", "e", "d", " ">>
S_Mbps_have ==
    <<"M", "b", "p", "s", ",", " ", "h", "a", "v", "e", " ">>
S_Mbps ==
    <<"M", "b", "p", "s">>
S_OS_need ==
    <<"O", "S", " ", "n", "o", "t", " ", "s", "u", "p", "p", "o", "r", "t", "e", "d", ":", " ", "n", "e", "e", "d", " ", "o", "n", "e", " ", "o", "f", " ", "[">>
S_OS_have ==
    <<"]", ",", " ", "h", "a", "v", "e", " ">>
S_not_home ==
    <<"T", "h", "i", "s", " ", "p", "r", "o", "j", "e", "c", "t", " ", "m", "a", "y", " ", "n", "o", "t", " ", "b", "e", " ", "s", "u", "i", "t", "a", "b", "l", "e", " ", "f", "o", "r", " ", "h", "o", "m", "e", " ", "u", "s", "e">>
S_dollar ==
    <<"$">>
S_dash_dollar ==
    <<"-", "$">>
S_per_month ==
    <<"/", "m", "o", "n", "t", "h">>
S_Windows ==
    <<"W", "i", "n", "d", "o", "w", "s">>
S_Linux ==
    <<"L", "i", "n", "u", "x">>
S_macOS ==
    <<"m", "a", "c", "O", "S">>
S_SSD == <<"S", "S", "D">>
S_Any == <<"A", "n", "y">>

-----------------------------------------------------------------------------
(* internal/models *)

\* Performance ratings.
RatingExcellent == "Excellent"
RatingGood == "Good"
RatingFair == "Fair"
RatingPoor == "Poor"

\* System categories.
SystemEntry == "Entry Level"
SystemMidRange == "Mid-Range"
SystemHighEnd == "High-End"
SystemExtreme == "Extreme"

\* Compatibility thresholds (float64 literals 0.9, 0.7, 0.5).
ScoreExcellent == F64(241591910, 429496736)
ScoreGood == F64(187904819, 214748352)
ScoreFair == F64(134217728, 0)

\* GetPerformanceRating with strict comparisons.
GetPerformanceRating_Strict(score) ==
    IF F64Gt(score, ScoreExcellent) THEN RatingExcellent
    ELSE IF F64Gt(score, ScoreGood) THEN RatingGood
    ELSE IF F64Gt(score, ScoreFair) THEN RatingFair
    ELSE RatingPoor

\* models.GetPerformanceRating(score).
GetPerformanceRating(score) ==
    IF F64Geq(score, ScoreExcellent) THEN RatingExcellent
    ELSE IF F64Geq(score, ScoreGood) THEN RatingGood
    ELSE IF F64Geq(score, ScoreFair) THEN RatingFair
    ELSE RatingPoor

\* SystemPoints whose storage point asks for an SSD and 500 GB together.
SystemPoints_StorageBoth(spec) ==
    (IF spec.CPUCores >= 12 THEN 3
     ELSE IF spec.CPUCores >= 8 THEN 2
     ELSE IF spec.CPUCores >= 4 THEN 1 ELSE 0)
  + (IF spec.RAMGB >= 32 THEN 3
     ELSE IF spec.RAMGB >= 16 THEN 2
     ELSE IF spec.RAMGB >= 8 THEN 1 ELSE 0)
  + (IF spec.HasGPU /\ spec.GPUVRAMGB >= 12 THEN 3
     ELSE IF spec.HasGPU /\ spec.GPUVRAMGB >= 6 THEN 2
     ELSE IF spec.HasGPU THEN 1 ELSE 0)
  + (IF spec.HasSSD /\ spec.StorageGB >= 1000 THEN 2
     ELSE IF spec.HasSSD /\ spec.StorageGB >= 500 THEN 1 ELSE 0)
  + (IF spec.NetworkMbps >= 500 THEN 2
     ELSE IF spec.NetworkMbps >= 100 THEN 1 ELSE 0)

\* The points models.GetSystemRating gives a system.
SystemPoints(spec) ==
    (IF spec.CPUCores >= 12 THEN 3
     ELSE IF spec.CPUCores >= 8 THEN 2
     ELSE IF spec.CPUCores >= 4 THEN 1 ELSE 0)
  + (IF spec.RAMGB >= 32 THEN 3
     ELSE IF spec.RAMGB >= 16 THEN 2
     ELSE IF spec.RAMGB >= 8 THEN 1 ELSE 0)
  + (IF spec.HasGPU /\ spec.GPUVRAMGB >= 12 THEN 3
     ELSE IF spec.HasGPU /\ spec.GPUVRAMGB >= 6 THEN 2
     ELSE IF spec.HasGPU THEN 1 ELSE 0)
  + (IF spec.HasSSD /\ spec.StorageGB >= 1000 THEN 2
     ELSE IF spec.HasSSD \/ spec.StorageGB >= 500 THEN 1 ELSE 0)
  + (IF spec.NetworkMbps >= 500 THEN 2
     ELSE IF spec.NetworkMbps >= 100 THEN 1 ELSE 0)

\* models.GetSystemRating(spec).
GetSystemRating(spec) ==
    LET score == SystemPoints(spec)
    IN  IF score >= 12 THEN SystemExtreme
        ELSE IF score >= 8 THEN SystemHighEnd
        ELSE IF score >= 5 THEN SystemMidRange
        ELSE SystemEntry

-----------------------------------------------------------------------------
(* internal/service: the scorer *)

\* isOSCompatible that looks for the system's OS anywhere in supported_os.
isOSCompatible_Contains(systemOS, supportedOS) ==
    IF supportedOS = <<>> THEN TRUE ELSE StrContains(supportedOS, systemOS)

\* isOSCompatible(systemOS, supportedOS).
isOSCompatible(systemOS, supportedOS) ==
    IF supportedOS = <<>> THEN TRUE
    ELSE LET supportedList == SplitFrom(supportedOS, <<>>)
         IN  \E i \in 1..Len(supportedList) :
                 TrimSpace(supportedList[i]) = systemOS

\* BonusCPU with the two amounts exchanged.
BonusCPU_Exchanged(bonus, system, project) ==
    IF system.CPUCores > project.CPUCoresMin * 2 THEN F64Add(bonus, F_0_02)
    ELSE IF system.CPUCores > project.CPUCoresMin THEN F64Add(bonus, F_0_05)
    ELSE bonus

\* The CPU part of calculatePerformanceBonus.
BonusCPU(bonus, system, project) ==
    IF system.CPUCores > project.CPUCoresMin * 2 THEN F64Add(bonus, F_0_05)
    ELSE IF system.CPUCores > project.CPUCoresMin THEN F64Add(bonus, F_0_02)
    ELSE bonus

\* The RAM part of calculatePerformanceBonus.
BonusRAM(bonus, system, project) ==
    IF system.RAMGB > project.RAMGBRecommended * 2 THEN F64Add(bonus, F_0_05)
    ELSE IF system.RAMGB > project.RAMGBRecommended THEN F64Add(bonus, F_0_02)
    ELSE bonus

\* The network part of calculatePerformanceBonus.
BonusNetwork(bonus, system, project) ==
    IF system.NetworkMbps > project.NetworkMbpsMin * 2
    THEN F64Add(bonus, F_0_03)
    ELSE bonus

\* BonusGPU that asks for the VRAM only.
BonusGPU_WithoutGPU(bonus, system, project) ==
    IF system.GPUVRAMGB > 8 THEN F64Add(bonus, F_0_02) ELSE bonus

\* The GPU part of calculatePerformanceBonus.
BonusGPU(bonus, system, project) ==
    IF system.HasGPU /\ system.GPUVRAMGB > 8 THEN F64Add(bonus, F_0_02)
    ELSE bonus

\* calculatePerformanceBonus(system, project).
calculatePerformanceBonus(system, project) ==
    LET b1 == BonusCPU(F_0, system, project)
        b2 == BonusRAM(b1, system, project)
        b3 == BonusNetwork(b2, system, project)
        b4 == BonusGPU(b3, system, project)
    IN  F64Min(b4, F_0_15)

\* The scorer's accumulator: the result under construction and the local
\* variable score.
NewResult(project) ==
    [Name                |-> project.Name,
     Compatible          |-> TRUE,
     CompatibilityScore  |-> F_1,
     PerformanceRating   |-> RatingExcellent,
     EstimatedCost       |-> S_dollar \o IntToStr(project.EstimatedCostMin)
                             \o S_dash_dollar
                             \o IntToStr(project.EstimatedCostMax)
                             \o S_per_month,
     MissingRequirements |-> <<>>,
     RecommendedUpgrades |-> <<>>,
     Warnings            |-> <<>>]

\* An accumulator with compatible cleared, a missing requirement appended and
\* a penalty subtracted from the score.
Fail(acc, msg, penalty) ==
    [result |-> [acc.result EXCEPT
                    !.Compatible = FALSE,
                    !.MissingRequirements = Append(@, msg)],
     score  |-> F64Sub(acc.score, penalty)]

\* CheckCPU that fails a system with exactly the minimum.
CheckCPU_AtMinimum(acc, system, project) ==
    IF system.CPUCores <= project.CPUCoresMin
    THEN Fail(acc, S_CPU_need \o IntToStr(project.CPUCoresMin) \o S_have
                   \o IntToStr(system.CPUCores), F_0_2)
    ELSE acc

\* Check CPU requirements.
CheckCPU(acc, system, project) ==
    IF system.CPUCores < project.CPUCoresMin
    THEN Fail(acc, S_CPU_need \o IntToStr(project.CPUCoresMin) \o S_have
                   \o IntToStr(system.CPUCores), F_0_3)
    ELSE acc

\* CheckRAM that recommends an upgrade also at the recommended amount.
CheckRAM_AtRecommended(acc, system, project) ==
    IF system.RAMGB < project.RAMGBMin
    THEN Fail(acc, S_RAM_need \o IntToStr(project.RAMGBMin) \o S_GB_have
                   \o IntToStr(system.RAMGB) \o S_GB, F_0_3)
    ELSE IF system.RAMGB <= project.RAMGBRecommended
    THEN [result |-> [acc.result EXCEPT
                         !.RecommendedUpgrades =
                             Append(@, S_RAM_upgrade
                                       \o IntToStr(project.RAMGBRecommended)
                                       \o S_GB_recommended)],
          score  |-> F64Sub(acc.score, F_0_1)]
    ELSE acc

\* CheckRAM with a penalty of 0.2 for RAM below the recommendation.
CheckRAM_HeavierRecommended(acc, system, project) ==
    IF system.RAMGB < project.RAMGBMin
    THEN Fail(acc, S_RAM_need \o IntToStr(project.RAMGBMin) \o S_GB_have
                   \o IntToStr(system.RAMGB) \o S_GB, F_0_3)
    ELSE IF system.RAMGB < project.RAMGBRecommended
    THEN [result |-> [acc.result EXCEPT
                         !.RecommendedUpgrades =
                             Append(@, S_RAM_upgrade
                                       \o IntToStr(project.RAMGBRecommended)
                                       \o S_GB_recommended)],
          score  |-> F64Sub(acc.score, F_0_2)]
    ELSE acc

\* Check RAM requirements.
CheckRAM(acc, system, project) ==
    IF system.RAMGB < project.RAMGBMin
    THEN Fail(acc, S_RAM_need \o IntToStr(project.RAMGBMin) \o S_GB_have
                   \o IntToStr(system.RAMGB) \o S_GB, F_0_3)
    ELSE IF system.RAMGB < project.RAMGBRecommended
    THEN [result |-> [acc.result EXCEPT
                         !.RecommendedUpgrades =
                             Append(@, S_RAM_upgrade
                                       \o IntToStr(project.RAMGBRecommended)
                                       \o S_GB_recommended)],
          score  |-> F64Sub(acc.score, F_0_1)]
    ELSE acc

\* CheckStorage with the penalty only: compatible is left as it was.
CheckStorage_KeepsCompatible(acc, system, project) ==
    IF system.StorageGB < project.StorageGBMin
    THEN [acc EXCEPT !.score = F64Sub(@, F_0_2)]
    ELSE acc

\* Check storage requirements.
CheckStorage(acc, system, project) ==
    IF system.StorageGB < project.StorageGBMin
    THEN Fail(acc, S_Storage_need \o IntToStr(project.StorageGBMin)
                   \o S_GB_have \o IntToStr(system.StorageGB) \o S_GB, F_0_2)
    ELSE acc

\* Check SSD requirement.
CheckSSD(acc, system, project) ==
    IF project.StorageType = S_SSD /\ ~system.HasSSD
    THEN Fail(acc, S_SSD_required, F_0_25)
    ELSE IF project.StorageType = S_SSD /\ system.HasSSD
    THEN [acc EXCEPT !.score = F64Add(@, F_0_05)]
    ELSE acc

\* CheckGPU with the VRAM check run after the presence check, not in its
\* else branch.
CheckGPU_BothChecks(acc, system, project) ==
    LET present == IF project.GPURequired /\ ~system.HasGPU
                   THEN Fail(acc, S_GPU_required, F_0_4)
                   ELSE acc
    IN  IF project.GPUVRAMGBMin > 0
           /\ system.GPUVRAMGB < project.GPUVRAMGBMin
        THEN Fail(present,
                  S_VRAM_need \o IntToStr(project.GPUVRAMGBMin)
                  \o S_GB_have \o IntToStr(system.GPUVRAMGB) \o S_GB, F_0_3)
        ELSE present

\* CheckGPU that is skipped once an earlier check has failed.
CheckGPU_SkippedAfterFailure(acc, system, project) ==
    IF ~acc.result.Compatible THEN acc
    ELSE IF project.GPURequired /\ ~system.HasGPU
    THEN Fail(acc, S_GPU_required, F_0_4)
    ELSE IF project.GPUVRAMGBMin > 0
            /\ system.GPUVRAMGB < project.GPUVRAMGBMin
    THEN Fail(acc, S_VRAM_need \o IntToStr(project.GPUVRAMGBMin)
                   \o S_GB_have \o IntToStr(system.GPUVRAMGB) \o S_GB, F_0_3)
    ELSE acc

\* Check GPU requirements.
CheckGPU(acc, system, project) ==
    IF project.GPURequired /\ ~system.HasGPU
    THEN Fail(acc, S_GPU_required, F_0_4)
    ELSE IF project.GPUVRAMGBMin > 0
            /\ system.GPUVRAMGB < project.GPUVRAMGBMin
    THEN Fail(acc, S_VRAM_need \o IntToStr(project.GPUVRAMGBMin)
                   \o S_GB_have \o IntToStr(system.GPUVRAMGB) \o S_GB, F_0_3)
    ELSE acc

\* CheckNetwork that records no missing requirement.
CheckNetwork_Silent(acc, system, project) ==
    IF system.NetworkMbps < project.NetworkMbpsMin
    THEN [result |-> [acc.result EXCEPT !.Compatible = FALSE],
          score  |-> F64Sub(acc.score, F_0_2)]
    ELSE acc

\* Check network speed.
CheckNetwork(acc, system, project) ==
    IF system.NetworkMbps < project.NetworkMbpsMin
    THEN Fail(acc, S_Network_need \o IntToStr(project.NetworkMbpsMin)
                   \o S_Mbps_have \o IntToStr(system.NetworkMbps) \o S_Mbps,
              F_0_2)
    ELSE acc

\* Check OS compatibility.
CheckOS(acc, system, project) ==
    IF ~isOSCompatible(system.OS, project.SupportedOS)
    THEN Fail(acc, S_OS_need \o project.SupportedOS \o S_OS_have
                   \o system.OS, F_0_3)
    ELSE acc

\* Performance bonuses for exceeding requirements.
AddBonus(acc, system, project) ==
    [acc EXCEPT !.score = F64Add(@, calculatePerformanceBonus(system, project))]

\* CheckHomeFriendly that also clears compatible.
CheckHomeFriendly_ClearsCompatible(acc, system, project) ==
    IF ~project.HomeFriendly
    THEN [acc EXCEPT !.result.Warnings = Append(@, S_not_home),
                     !.result.Compatible = FALSE]
    ELSE acc

\* Home-friendly check.
CheckHomeFriendly(acc, system, project) ==
    IF ~project.HomeFriendly
    THEN [acc EXCEPT !.result.Warnings = Append(@, S_not_home)]
    ELSE acc

\* ClampScore without the lower bound.
ClampScore_NoLower(score) == F64Min(F_1, score)

\* ClampScore without the upper bound.
ClampScore_NoUpper(score) == F64Max(F_0, score)

\* Ensure score is within bounds: math.Max(0.0, math.Min(1.0, score)).
ClampScore(score) == F64Max(F_0, F64Min(F_1, score))

\* The accumulator after every check of analyzeProjectCompatibility, in the
\* order of the code, before the score is clamped.
Accumulate(system, project) ==
    LET a0 == [result |-> NewResult(project), score |-> F_1]
        a1 == CheckCPU(a0, system, project)
        a2 == CheckRAM(a1, system, project)
        a3 == CheckStorage(a2, system, project)
        a4 == CheckSSD(a3, system, project)
        a5 == CheckGPU(a4, system, project)
        a6 == CheckNetwork(a5, system, project)
        a7 == CheckOS(a6, system, project)
        a8 == AddBonus(a7, system, project)
    IN  CheckHomeFriendly(a8, system, project)

\* The end of analyzeProjectCompatibility: the score is clamped, stored in
\* the result, and rated.
FinishResult(acc) ==
    [acc.result EXCEPT
        !.CompatibilityScore = ClampScore(acc.score),
        !.PerformanceRating = GetPerformanceRating(ClampScore(acc.score))]

\* analyzeProjectCompatibility(system, project).
analyzeProjectCompatibility(system, project) ==
    FinishResult(Accumulate(system, project))

-----------------------------------------------------------------------------
(* internal/service: the aggregator *)

\* AppendResult that keeps an incompatible result only when its score is
\* above 0.
AppendResult_DropsZero(prev, result) ==
    [compatible   |-> IF result.Compatible
                      THEN Append(prev.compatible, result)
                      ELSE prev.compatible,
     incompatible |-> IF result.Compatible \/ result.CompatibilityScore = F_0
                      THEN prev.incompatible
                      ELSE Append(prev.incompatible, result),
     totalScore   |-> F64Add(prev.totalScore, result.CompatibilityScore)]

\* AppendResult that adds to the total inside the compatible branch only.
AppendResult_TotalOfCompatible(prev, result) ==
    [compatible   |-> IF result.Compatible
                      THEN Append(prev.compatible, result)
                      ELSE prev.compatible,
     incompatible |-> IF result.Compatible
                      THEN prev.incompatible
                      ELSE Append(prev.incompatible, result),
     totalScore   |-> IF result.Compatible
                      THEN F64Add(prev.totalScore, result.CompatibilityScore)
                      ELSE prev.totalScore]

\* One iteration of the loop of PredictCompatibility: the total grows by the
\* result's score and the result goes to the list its flag chooses.
AppendResult(prev, result) ==
    [compatible   |-> IF result.Compatible
                      THEN Append(prev.compatible, result)
                      ELSE prev.compatible,
     incompatible |-> IF result.Compatible
                      THEN prev.incompatible
                      ELSE Append(prev.incompatible, result),
     totalScore   |-> F64Add(prev.totalScore, result.CompatibilityScore)]

\* The loop of PredictCompatibility over the first n projects of the catalog:
\* the results appended to compatible or incompatible, and the running total.
RECURSIVE ScoreProjects(_, _, _)
ScoreProjects(projects, system, n) ==
    IF n = 0
    THEN [compatible |-> <<>>, incompatible |-> <<>>, totalScore |-> F_0]
    ELSE AppendResult(ScoreProjects(projects, system, n - 1),
                      analyzeProjectCompatibility(system, projects[n]))

\* A less function under which a lower score sorts first.
ScoreLess_Ascending(x, y) == F64Lt(x.CompatibilityScore, y.CompatibilityScore)

\* The less function given to sort.Slice: a higher score sorts first.
ScoreLess(x, y) == F64Gt(x.CompatibilityScore, y.CompatibilityScore)

\* The inner loop of the insertion sort sort.Slice runs on a slice of at
\* most 12 elements: data[j] moves left while it is less than data[j-1].
RECURSIVE SinkLeft(_, _)
SinkLeft(data, j) ==
    IF j > 1 /\ ScoreLess(data[j], data[j - 1])
    THEN SinkLeft([data EXCEPT ![j] = data[j - 1], ![j - 1] = data[j]], j - 1)
    ELSE data

\* The outer loop of that insertion sort, from index i on.
RECURSIVE InsertionSortFrom(_, _)
InsertionSortFrom(data, i) ==
    IF i > Len(data) THEN data
    ELSE InsertionSortFrom(SinkLeft(data, i), i + 1)

\* sort.Slice(results, by descending score).
SortByScore(results) == InsertionSortFrom(results, 2)

\* The comparison with > in place of >=.
RateAtLeast_Strict(compatibilityRate, literal) ==
    /\ F64ScaledLeq(F64Normal(literal, 0), compatibilityRate)
    /\ ~F64ScaledLeq(compatibilityRate, F64Normal(literal, 0))

\* compatibilityRate >= literal, for the compatibilityRate of
\* generateRecommendations and a float64 literal of the scorer's form: false
\* when the rate is NaN (no project).
RateAtLeast(compatibilityRate, literal) ==
    F64ScaledLeq(F64Normal(literal, 0), compatibilityRate)

\* The overall assessments of generateRecommendations.
RecExcellent == "Excellent! Your system is compatible with most DePIN projects."
RecGood == "Good compatibility! Your system works well with many DePIN projects."
RecFair == "Fair compatibility. Consider upgrading for better project support."
RecLimited == "Limited compatibility. Upgrades recommended for better DePIN support."

\* The upgrade suggestions of analyzeUpgradeNeeds.
RecRAM == "Consider upgrading RAM for better project compatibility"
RecCPU == "A CPU upgrade would significantly improve project support"
RecGPU == "Adding a dedicated GPU would unlock AI and compute-intensive projects"
RecStorage == "Consider upgrading to SSD storage or increasing capacity"
RecNetwork == "Faster internet connection would improve project compatibility"

\* The recommended-projects line of generateRecommendations.
RecProjects == "Recommended projects for your system: "

\* A recommendation: a fixed text and, for the recommended-projects line, the
\* names strings.Join puts after it.
Recommendation(text, names) == [text |-> text, names |-> names]

\* The words analyzeUpgradeNeeds looks for.
S_RAM == <<"R", "A", "M">>
S_CPU == <<"C", "P", "U">>
S_GPU == <<"G", "P", "U">>
S_Storage == <<"S", "t", "o", "r", "a", "g", "e">>
S_Network == <<"N", "e", "t", "w", "o", "r", "k">>

\* The counter the switch of analyzeUpgradeNeeds increments for one missing
\* requirement ("none" when no case matches).
IssueCategory(req) ==
    IF StrContains(req, S_RAM) THEN "ram"
    ELSE IF StrContains(req, S_CPU) THEN "cpu"
    ELSE IF StrContains(req, S_GPU) THEN "gpu"
    ELSE IF StrContains(req, S_Storage) \/ StrContains(req, S_SSD)
    THEN "storage"
    ELSE IF StrContains(req, S_Network) THEN "network"
    ELSE "none"

\* The counters of analyzeUpgradeNeeds, all zero.
NoIssues == [ram |-> 0, cpu |-> 0, gpu |-> 0, storage |-> 0, network |-> 0]

\* The inner loop of analyzeUpgradeNeeds: the counters after the missing
\* requirements reqs, in order.
RECURSIVE CountRequirements(_, _)
CountRequirements(reqs, counts) ==
    IF reqs = <<>> THEN counts
    ELSE LET category == IssueCategory(Head(reqs))
         IN  CountRequirements(Tail(reqs),
                 IF category = "none" THEN counts
                 ELSE [counts EXCEPT ![category] = @ + 1])

\* The outer loop of analyzeUpgradeNeeds: the counters after the results.
RECURSIVE CountIssues(_, _)
CountIssues(incompatible, counts) ==
    IF incompatible = <<>> THEN counts
    ELSE CountIssues(Tail(incompatible),
             CountRequirements(Head(incompatible).MissingRequirements, counts))

\* analyzeUpgradeNeeds that emits at the threshold, not only above it.
analyzeUpgradeNeeds_AtThreshold(system, incompatible) ==
    LET issues    == CountIssues(incompatible, NoIssues)
        threshold == Len(incompatible) \div 3
        Emit(count, text) ==
            IF count >= threshold THEN <<Recommendation(text, <<>>)>>
            ELSE <<>>
    IN  Emit(issues.ram, RecRAM) \o Emit(issues.cpu, RecCPU)
        \o Emit(issues.gpu, RecGPU) \o Emit(issues.storage, RecStorage)
        \o Emit(issues.network, RecNetwork)

\* analyzeUpgradeNeeds(system, incompatible).
analyzeUpgradeNeeds(system, incompatible) ==
    LET issues    == CountIssues(incompatible, NoIssues)
        threshold == Len(incompatible) \div 3
        Emit(count, text) ==
            IF count > threshold THEN <<Recommendation(text, <<>>)>>
            ELSE <<>>
    IN  Emit(issues.ram, RecRAM) \o Emit(issues.cpu, RecCPU)
        \o Emit(issues.gpu, RecGPU) \o Emit(issues.storage, RecStorage)
        \o Emit(issues.network, RecNetwork)

\* getBestProjects that returns the last n.
getBestProjects_Last(compatible, n) ==
    IF Len(compatible) <= n THEN compatible
    ELSE SubSeq(compatible, Len(compatible) - n + 1, Len(compatible))

\* getBestProjects(compatible, n).
getBestProjects(compatible, n) ==
    IF Len(compatible) <= n THEN compatible ELSE SubSeq(compatible, 1, n)

\* The overall system assessment of generateRecommendations, from
\* compatibilityRate := float64(len(compatible)) / float64(len(s.projects)).
OverallAssessment(nCompatible, nProjects) ==
    LET compatibilityRate == F64Quotient(nCompatible, nProjects)
    IN  IF RateAtLeast(compatibilityRate, F_0_8) THEN RecExcellent
        ELSE IF RateAtLeast(compatibilityRate, F_0_6) THEN RecGood
        ELSE IF RateAtLeast(compatibilityRate, F_0_4) THEN RecFair
        ELSE RecLimited

\* generateRecommendations(system, compatible, incompatible) of a service
\* with the catalog projects.
generateRecommendations(projects, system, compatible, incompatible) ==
    LET overall ==
            <<Recommendation(OverallAssessment(Len(compatible), Len(projects)),
                             <<>>)>>
        upgradeRecommendations == analyzeUpgradeNeeds(system, incompatible)
        bestProjects == getBestProjects(compatible, 3)
        projectNames == [i \in 1..Len(bestProjects) |-> bestProjects[i].Name]
    IN  overall \o upgradeRecommendations
        \o (IF Len(compatible) > 0
            THEN <<Recommendation(RecProjects, projectNames)>>
            ELSE <<>>)

\* CompatibilityRate with the division done on the integers.
CompatibilityRate_IntegerDivision(nCompatible, nProjects) ==
    F64Times100(F64Normal(F64(nCompatible \div nProjects, 0), 28))

\* summary.CompatibilityRate: float64(len(compatible)) /
\* float64(len(s.projects)) * 100, a float64 division and then a float64
\* multiplication; 0.0 / 0.0 is NaN and so is its product.
CompatibilityRate(nCompatible, nProjects) ==
    F64Times100(F64Quotient(nCompatible, nProjects))

\* summary.AverageScore: totalScore / float64(len(s.projects)), one float64
\* division; totalScore is 0.0 when there is no project, and 0.0 / 0.0 is
\* NaN.
AverageScore(totalScore, nProjects) ==
    F64DivInt(F64Normal(totalScore, 0), nProjects)

\* The two sorts of PredictCompatibility, applied to the lists of the loop.
SortScored(scored) ==
    [compatible   |-> SortByScore(scored.compatible),
     incompatible |-> SortByScore(scored.incompatible),
     totalScore   |-> scored.totalScore]

\* The summary, the recommendations and the response PredictCompatibility
\* builds at time now from the sorted lists and the total.
Respond(projects, system, scored, now) ==
    [CompatibleProjects   |-> scored.compatible,
     IncompatibleProjects |-> scored.incompatible,
     Summary |->
        [TotalProjects     |-> Len(projects),
         CompatibleCount   |-> Len(scored.compatible),
         IncompatibleCount |-> Len(scored.incompatible),
         CompatibilityRate |-> CompatibilityRate(Len(scored.compatible),
                                                 Len(projects)),
         AverageScore      |-> AverageScore(scored.totalScore, Len(projects)),
         SystemRating      |-> GetSystemRating(system)],
     Recommendations      |-> generateRecommendations(projects, system,
                                  scored.compatible, scored.incompatible),
     GeneratedAt          |-> now]

\* The response PredictCompatibility(system) builds from the catalog projects
\* at time now.
BuildResponse(projects, system, now) ==
    Respond(projects, system,
            SortScored(ScoreProjects(projects, system, Len(projects))), now)

\* The sequence q reversed.
Reverse(q) == [i \in 1..Len(q) |-> q[Len(q) + 1 - i]]

\* PredictCompatibility that leaves the shared catalog reordered.
PredictCompatibility_ReordersCatalog(s, system, now) ==
    [service  |-> [s EXCEPT !.projects = Reverse(@)],
     response |-> BuildResponse(s.projects, system, now),
     err      |-> "nil"]

\* PredictCompatibility that returns an error when no project is compatible.
PredictCompatibility_ErrorWhenNoneCompatible(s, system, now) ==
    [service  |-> s,
     response |-> BuildResponse(s.projects, system, now),
     err      |-> IF BuildResponse(s.projects, system, now)
                        .Summary.CompatibleCount = 0
                  THEN "no compatible projects" ELSE "nil"]

\* (s *CompatibilityService) PredictCompatibility(system), called at time
\* now: the service after the call (the method has a pointer receiver and
\* assigns none of its fields), the response and the error, which is nil on
\* the only return of the method.
PredictCompatibility(s, system, now) ==
    [service  |-> s,
     response |-> BuildResponse(s.projects, system, now),
     err      |-> "nil"]

\* NewCompatibilityService(projects), called at time now.
NewCompatibilityService(projects, now) ==
    [projects |-> projects, startTime |-> now]

\* GetProjects().
GetProjects(s) == s.projects

\* The number of projects counted by a loop that increments on flags[i].
CountProjects(flags) == Cardinality({i \in DOMAIN flags : flags[i]})

\* GetProjectSummary(): the two maps hold a count for each type and each
\* cost category that occurs in the catalog.
GetProjectSummary(s) ==
    [ByType |->
        [type \in {s.projects[i].Type : i \in DOMAIN s.projects} |->
            CountProjects([i \in DOMAIN s.projects |->
                              s.projects[i].Type = type])],
     ByCostCategory |->
        [cat \in {s.projects[i].CostCategory : i \in DOMAIN s.projects} |->
            CountProjects([i \in DOMAIN s.projects |->
                              s.projects[i].CostCategory = cat])],
     HomeFriendly |->
        CountProjects([i \in DOMAIN s.projects |->
                          s.projects[i].HomeFriendly]),
     GPURequired |->
        CountProjects([i \in DOMAIN s.projects |->
                          s.projects[i].GPURequired])]

\* PredictCompatibility step by step, as one goroutine runs it next to
\* others.  A call holds its own locals: the system, the number of projects
\* the loop has passed, and compatible, incompatible and totalScore.
NewCall(system) ==
    [pc |-> "loop", system |-> system, passed |-> 0,
     scored |-> [compatible |-> <<>>, incompatible |-> <<>>,
                 totalScore |-> F_0]]

\* One iteration of the loop: the next project is read from the catalog of
\* the service and its result goes to the locals of the call.
ScoreNext(s, call) ==
    [call EXCEPT
        !.passed = @ + 1,
        !.scored = AppendResult(@, analyzeProjectCompatibility(
                                       call.system,
                                       s.projects[call.passed + 1]))]

\* The two sorts, with the catalog of the service reversed in place.
SortCall_SortsCatalog(s, call) ==
    [service |-> [s EXCEPT !.projects = Reverse(@)],
     call    |-> [call EXCEPT !.pc = "respond", !.scored = SortScored(@)]]

\* The two sorts after the loop: they sort the lists of the call.
SortCall(s, call) ==
    [service |-> s,
     call    |-> [call EXCEPT !.pc = "respond", !.scored = SortScored(@)]]

\* The end of the call at time now: the response it returns.
RespondCall(s, call, now) ==
    Respond(s.projects, call.system, call.scored, now)

-----------------------------------------------------------------------------
(* internal/data: the loader *)

\* The ASCII letters, for strings.ToLower and strings.ToUpper.
UpperLetters ==
    <<"A", "B", "C", "D", "E", "F", "G", "H", "I", "J", "K", "L", "M", "N", "O", "P", "Q", "R", "S", "T", "U", "V", "W", "X", "Y", "Z">>
LowerLetters ==
    <<"a", "b", "c", "d", "e", "f", "g", "h", "i", "j", "k", "l", "m", "n", "o", "p", "q", "r", "s", "t", "u", "v", "w", "x", "y", "z">>

\* strings.ToLower(s) and strings.ToUpper(s) on ASCII.
ToLower(s) ==
    [i \in 1..Len(s) |->
        IF \E k \in 1..Len(UpperLetters) : UpperLetters[k] = s[i]
        THEN LowerLetters[CHOOSE k \in 1..Len(UpperLetters) :
                              UpperLetters[k] = s[i]]
        ELSE s[i]]
ToUpper(s) ==
    [i \in 1..Len(s) |->
        IF \E k \in 1..Len(LowerLetters) : LowerLetters[k] = s[i]
        THEN UpperLetters[CHOOSE k \in 1..Len(LowerLetters) :
                              LowerLetters[k] = s[i]]
        ELSE s[i]]

\* strings.ReplaceAll(s, " ", "_").
ReplaceSpaces(s) == [i \in 1..Len(s) |-> IF s[i] = " " THEN "_" ELSE s[i]]

\* The normalized field name of createFieldMap.
NormalizeField(field) == ToLower(ReplaceSpaces(TrimSpace(field)))

\* createFieldMap(header): the map from normalized field names to column
\* indices (counted from 1 here, from 0 in the code); of two columns with
\* the same normalized name the later one stays.
createFieldMap(header) ==
    [n \in {NormalizeField(header[i]) : i \in 1..Len(header)} |->
        CHOOSE i \in 1..Len(header) :
            /\ NormalizeField(header[i]) = n
            /\ \A j \in 1..Len(header) :
                   NormalizeField(header[j]) = n => j <= i]

\* The column of fieldName is in the map and inside the record.
HasColumn(record, fieldMap, fieldName) ==
    /\ fieldName \in DOMAIN fieldMap
    /\ fieldMap[fieldName] <= Len(record)

\* The trimmed value of the column of fieldName.
ColumnValue(record, fieldMap, fieldName) ==
    TrimSpace(record[fieldMap[fieldName]])

\* getStringField(record, fieldMap, fieldNames...).
RECURSIVE getStringField(_, _, _)
getStringField(record, fieldMap, fieldNames) ==
    IF fieldNames = <<>> THEN <<>>
    ELSE IF /\ HasColumn(record, fieldMap, Head(fieldNames))
            /\ ColumnValue(record, fieldMap, Head(fieldNames)) # <<>>
    THEN ColumnValue(record, fieldMap, Head(fieldNames))
    ELSE getStringField(record, fieldMap, Tail(fieldNames))

\* s is a non-empty string of decimal digits.
IsDigits(s) ==
    /\ s # <<>>
    /\ \A i \in 1..Len(s) : \E d \in 1..Len(Digits) : Digits[d] = s[i]

\* The number a string of decimal digits denotes.
RECURSIVE DigitsValue(_)
DigitsValue(s) ==
    IF s = <<>> THEN 0
    ELSE DigitsValue(SubSeq(s, 1, Len(s) - 1)) * 10
         + (CHOOSE d \in 0..9 : Digits[d + 1] = s[Len(s)])

\* strconv.Atoi(s): an optional sign and decimal digits (the strings of the
\* model are too short to leave the range of int).
Atoi(s) ==
    IF s # <<>> /\ Head(s) = "-" /\ IsDigits(Tail(s))
    THEN [ok |-> TRUE, value |-> 0 - DigitsValue(Tail(s))]
    ELSE IF s # <<>> /\ Head(s) = "+" /\ IsDigits(Tail(s))
    THEN [ok |-> TRUE, value |-> DigitsValue(Tail(s))]
    ELSE IF IsDigits(s)
    THEN [ok |-> TRUE, value |-> DigitsValue(s)]
    ELSE [ok |-> FALSE, value |-> 0]

\* getIntField(record, fieldMap, fieldNames...).
RECURSIVE getIntField(_, _, _)
getIntField(record, fieldMap, fieldNames) ==
    IF fieldNames = <<>> THEN 0
    ELSE IF /\ HasColumn(record, fieldMap, Head(fieldNames))
            /\ ColumnValue(record, fieldMap, Head(fieldNames)) # <<>>
            /\ Atoi(ColumnValue(record, fieldMap, Head(fieldNames))).ok
    THEN Atoi(ColumnValue(record, fieldMap, Head(fieldNames))).value
    ELSE getIntField(record, fieldMap, Tail(fieldNames))

\* getBoolField(record, fieldMap, fieldNames...): the first column present
\* decides.
RECURSIVE getBoolField(_, _, _)
getBoolField(record, fieldMap, fieldNames) ==
    IF fieldNames = <<>> THEN FALSE
    ELSE IF HasColumn(record, fieldMap, Head(fieldNames))
    THEN ToUpper(ColumnValue(record, fieldMap, Head(fieldNames)))
             \in {<<"T", "R", "U", "E">>, <<"1">>, <<"Y", "E", "S">>, <<"Y">>}
    ELSE getBoolField(record, fieldMap, Tail(fieldNames))

\* The fields parseProjectRecord reads from a record.
ParsedProject(record, fieldMap) ==
    [Name |->
        getStringField(record, fieldMap,
            <<<<"p", "r", "o", "j", "e", "c", "t", "_", "n", "a", "m", "e">>,
              <<"n", "a", "m", "e">>>>),
     Type |->
        getStringField(record, fieldMap,
            <<<<"p", "r", "o", "j", "e", "c", "t", "_", "t", "y", "p", "e">>,
              <<"t", "y", "p", "e">>>>),
     NodeType |->
        getStringField(record, fieldMap,
            <<<<"n", "o", "d", "e", "_", "t", "y", "p", "e">>>>),
     CPUCoresMin |->
        getIntField(record, fieldMap,
            <<<<"c", "p", "u", "_", "c", "o", "r", "e", "s", "_", "m", "i", "n">>>>),
     RAMGBMin |->
        getIntField(record, fieldMap,
            <<<<"r", "a", "m", "_", "g", "b", "_", "m", "i", "n">>,
              <<"r", "a", "m", "_", "m", "i", "n", "_", "g", "b">>>>),
     RAMGBRecommended |->
        getIntField(record, fieldMap,
            <<<<"r", "a", "m", "_", "g", "b", "_", "r", "e", "c", "o", "m", "m", "e", "n", "d", "e", "d">>,
              <<"r", "a", "m", "_", "r", "e", "c", "o", "m", "m", "e", "n", "d", "e", "d", "_", "g", "b">>>>),
     StorageGBMin |->
        getIntField(record, fieldMap,
            <<<<"s", "t", "o", "r", "a", "g", "e", "_", "g", "b", "_", "m", "i", "n">>,
              <<"s", "t", "o", "r", "a", "g", "e", "_", "m", "i", "n", "_", "g", "b">>>>),
     StorageType |->
        getStringField(record, fieldMap,
            <<<<"s", "t", "o", "r", "a", "g", "e", "_", "t", "y", "p", "e">>>>),
     GPURequired |->
        getBoolField(record, fieldMap,
            <<<<"g", "p", "u", "_", "r", "e", "q", "u", "i", "r", "e", "d">>>>),
     GPUVRAMGBMin |->
        getIntField(record, fieldMap,
            <<<<"g", "p", "u", "_", "v", "r", "a", "m", "_", "g", "b", "_", "m", "i", "n">>,
              <<"g", "p", "u", "_", "v", "r", "a", "m", "_", "m", "i", "n", "_", "g", "b">>>>),
     NetworkMbpsMin |->
        getIntField(record, fieldMap,
            <<<<"n", "e", "t", "w", "o", "r", "k", "_", "s", "p", "e", "e", "d", "_", "m", "b", "p", "s", "_", "m", "i", "n">>,
              <<"n", "e", "t", "w", "o", "r", "k", "_", "m", "b", "p", "s", "_", "m", "i", "n">>>>),
     SupportedOS |->
        getStringField(record, fieldMap,
            <<<<"s", "u", "p", "p", "o", "r", "t", "e", "d", "_", "o", "s">>,
              <<"o", "s", "_", "s", "u", "p", "p", "o", "r", "t">>>>),
     EstimatedCostMin |->
        getIntField(record, fieldMap,
            <<<<"e", "s", "t", "i", "m", "a", "t", "e", "d", "_", "m", "o", "n", "t", "h", "l", "y", "_", "c", "o", "s", "t", "_", "u", "s", "d", "_", "m", "i", "n">>,
              <<"c", "o", "s", "t", "_", "m", "i", "n">>>>),
     EstimatedCostMax |->
        getIntField(record, fieldMap,
            <<<<"e", "s", "t", "i", "m", "a", "t", "e", "d", "_", "m", "o", "n", "t", "h", "l", "y", "_", "c", "o", "s", "t", "_", "u", "s", "d", "_", "m", "a", "x">>,
              <<"c", "o", "s", "t", "_", "m", "a", "x">>>>),
     CostCategory |->
        getStringField(record, fieldMap,
            <<<<"c", "o", "s", "t", "_", "c", "a", "t", "e", "g", "o", "r", "y">>>>),
     HomeFriendly |->
        getBoolField(record, fieldMap,
            <<<<"h", "o", "m", "e", "_", "f", "r", "i", "e", "n", "d", "l", "y">>>>),
     Description |->
        getStringField(record, fieldMap,
            <<<<"d", "e", "s", "c", "r", "i", "p", "t", "i", "o", "n">>,
              <<"a", "d", "d", "i", "t", "i", "o", "n", "a", "l", "_", "r", "e", "q", "u", "i", "r", "e", "m", "e", "n", "t", "s">>>>)]

\* The defaults validateProject assigns to the optional fields of its
\* project.
WithDefaults(project) ==
    [project EXCEPT
        !.Type = IF @ = <<>> THEN <<"U", "n", "k", "n", "o", "w", "n">> ELSE @,
        !.NodeType = IF @ = <<>> THEN <<"S", "t", "a", "n", "d", "a", "r", "d">> ELSE @,
        !.StorageType = IF @ = <<>> THEN S_Any ELSE @,
        !.CostCategory =
            IF @ # <<>> THEN @
            ELSE IF project.EstimatedCostMax <= 20 THEN <<"L", "o", "w">>
            ELSE IF project.EstimatedCostMax <= 100 THEN <<"M", "e", "d", "i", "u", "m">>
            ELSE <<"H", "i", "g", "h">>,
        !.SupportedOS =
            IF @ # <<>> THEN @
            ELSE <<"L", "i", "n", "u", "x", ",", "W", "i", "n", "d", "o", "w", "s", ",", "m", "a", "c", "O", "S">>]

\* validateProject that checks the name only.
validateProject_NameOnly(project) ==
    IF project.Name = <<>>
    THEN [err |-> "project name is required", project |-> project]
    ELSE [err |-> "nil", project |-> WithDefaults(project)]

\* (l *Loader) validateProject(project): the error it returns and its
\* parameter at the return. The project is passed by value, so project here
\* is the callee's copy.
validateProject(project) ==
    IF project.Name = <<>>
    THEN [err |-> "project name is required", project |-> project]
    ELSE IF project.CPUCoresMin < 0 \/ project.CPUCoresMin > 64
    THEN [err |-> "invalid CPU cores minimum", project |-> project]
    ELSE IF project.RAMGBMin < 0 \/ project.RAMGBMin > 1024
    THEN [err |-> "invalid RAM minimum", project |-> project]
    ELSE IF project.StorageGBMin < 0 \/ project.StorageGBMin > 100000
    THEN [err |-> "invalid storage minimum", project |-> project]
    ELSE IF project.NetworkMbpsMin < 0 \/ project.NetworkMbpsMin > 100000
    THEN [err |-> "invalid network speed minimum", project |-> project]
    ELSE [err |-> "nil", project |-> WithDefaults(project)]

\* The end of parseProjectRecord: the caller's project, which the call of
\* validateProject has not changed, and the error.
ValidatedRecord(project) ==
    [project |-> project,
     err     |-> IF validateProject(project).err = "nil" THEN "nil"
                 ELSE "validation failed"]

\* (l *Loader) parseProjectRecord(record, fieldMap, lineNumber).
parseProjectRecord(record, fieldMap) ==
    IF getStringField(record, fieldMap,
            <<<<"p", "r", "o", "j", "e", "c", "t", "_", "n", "a", "m", "e">>,
              <<"n", "a", "m", "e">>>>) = <<>>
    THEN [project |-> <<>>, err |-> "project name is required"]
    ELSE ValidatedRecord(ParsedProject(record, fieldMap))

\* The loop body of LoadDePINSpecs after a record was read: a record that
\* does not parse is skipped with a warning.
AppendParsed(projects, parsed) ==
    IF parsed.err # "nil" THEN projects ELSE Append(projects, parsed.project)

\* The loop of LoadDePINSpecs over what reader.Read() returns until io.EOF,
\* and the end of the function.
RECURSIVE LoadRows(_, _, _)
LoadRows(reads, fieldMap, projects) ==
    IF reads = <<>>
    THEN IF projects = <<>>
         THEN [projects |-> <<>>,
               err |-> "no valid projects found in CSV file"]
         ELSE [projects |-> projects, err |-> "nil"]
    ELSE IF Head(reads).err
    THEN [projects |-> <<>>, err |-> "failed to read CSV line"]
    ELSE LoadRows(Tail(reads), fieldMap,
                  AppendParsed(projects,
                               parseProjectRecord(Head(reads).fields,
                                                  fieldMap)))

\* (l *Loader) LoadDePINSpecs() on a file: whether os.Open succeeds, and what
\* each reader.Read() returns before io.EOF (an error, or the fields of a
\* record).
LoadDePINSpecs(file) ==
    IF ~file.opens
    THEN [projects |-> <<>>, err |-> "failed to open CSV file"]
    ELSE IF file.reads = <<>> \/ Head(file.reads).err
    THEN [projects |-> <<>>, err |-> "failed to read CSV header"]
    ELSE LoadRows(Tail(file.reads),
                  createFieldMap(Head(file.reads).fields), <<>>)

-----------------------------------------------------------------------------
(* internal/api: the handler of POST /predict, and main *)

\* The binding tags of models.SystemSpec, as the validator behind
\* ShouldBindJSON applies them to a decoded SystemSpec.
BindingOK(system) ==
    /\ system.CPUCores >= 1 /\ system.CPUCores <= 64
    /\ system.RAMGB >= 1 /\ system.RAMGB <= 128
    /\ system.StorageGB >= 32 /\ system.StorageGB <= 8192
    /\ system.GPUVRAMGB >= 0 /\ system.GPUVRAMGB <= 48
    /\ system.NetworkMbps >= 1 /\ system.NetworkMbps <= 10000
    /\ system.OS \in {S_Windows, S_Linux, S_macOS}

\* c.ShouldBindJSON(&request): a body is [wellFormed, system], the system
\* being what the decoder leaves in request.System when the body is JSON of
\* the right shape.
ShouldBindJSON(body) ==
    IF ~body.wellFormed THEN "invalid JSON"
    ELSE IF ~BindingOK(body.system) THEN "validation failed"
    ELSE "nil"

\* validateSystemSpec(spec): both of its conditions have empty bodies.
validateSystemSpec(spec) ==
    IF spec.HasGPU /\ spec.GPUVRAMGB = 0 THEN "nil"
    ELSE IF ~spec.HasGPU /\ spec.GPUVRAMGB > 0 THEN "nil"
    ELSE "nil"

\* One c.JSON(code, ...) of the handler.
ErrorResponse(code, error) == [code |-> code, error |-> error]

\* A handler whose validation failure answers 400 and falls through to the
\* prediction.
BindRequest_FallsThrough(h) ==
    IF ShouldBindJSON(h.body) # "nil"
    THEN [h EXCEPT !.pc = "call",
                   !.written = <<ErrorResponse(400, "Invalid request format")>>]
    ELSE [h EXCEPT !.pc = "call"]

\* The handler from its entry to the call of the service: it reads and
\* binds the body and validates the system, and on a failure it has its 400
\* to write and returns after that.
BindRequest(h) ==
    IF ShouldBindJSON(h.body) # "nil"
    THEN [h EXCEPT !.pc = "reply",
                   !.written = <<ErrorResponse(400, "Invalid request format")>>]
    ELSE IF validateSystemSpec(h.body.system) # "nil"
    THEN [h EXCEPT !.pc = "reply",
                   !.written =
                       <<ErrorResponse(400, "Invalid system specifications")>>]
    ELSE [h EXCEPT !.pc = "call"]

\* The handler at the return out of its call of the service: the call the
\* service served, and what the handler has to write after it, 500 on an
\* error, else 200 with the response.
CallService(h, out) ==
    [service |-> out.service,
     call    |-> [system |-> h.body.system, response |-> out.response],
     handler |-> [h EXCEPT
                    !.pc = "reply",
                    !.written =
                        @ \o (IF out.err # "nil"
                              THEN <<ErrorResponse(500, "Prediction failed")>>
                              ELSE <<[code   |-> 200,
                                      result |-> out.response]>>)]]

\* The process before main has built a service: no catalog, no start time.
NoService == [projects |-> <<>>, startTime |-> 0]

\* main with the first log.Fatalf removed: the service is built from whatever
\* the loader returned.
main_IgnoresError(file, now, listens) ==
    [phase   |-> IF listens THEN "serving" ELSE "failed",
     service |-> NewCompatibilityService(LoadDePINSpecs(file).projects, now)]

\* main() up to the outcome of server.ListenAndServe(), at time now:
\* log.Fatalf on a load error; else the service over the loaded projects,
\* and the server either listens and serves or fails to (the address cannot
\* be bound), in which case the goroutine ends the process with log.Fatalf.
main(file, now, listens) ==
    IF LoadDePINSpecs(file).err # "nil"
    THEN [phase |-> "aborted", service |-> NoService]
    ELSE [phase   |-> IF listens THEN "serving" ELSE "failed",
          service |-> NewCompatibilityService(LoadDePINSpecs(file).projects,
                                              now)]

-----------------------------------------------------------------------------
(* the inputs the model draws from *)

\* A models.SystemSpec.
SystemSpec(cpu, ram, storage, ssd, gpu, vram, net, os) ==
    [CPUCores |-> cpu, RAMGB |-> ram, StorageGB |-> storage, HasSSD |-> ssd,
     HasGPU |-> gpu, GPUVRAMGB |-> vram, NetworkMbps |-> net, OS |-> os]

\* A models.DePINProject; the fields the service never reads are fixed.
Project(name, cpuMin, ramMin, ramRec, storageMin, storageType, gpuRequired, vramMin, netMin, supportedOS, homeFriendly) ==
    [Name |-> name, Type |-> <<"C", "o", "m", "p", "u", "t", "e">>,
     NodeType |-> <<"S", "t", "a", "n", "d", "a", "r", "d">>,
     CPUCoresMin |-> cpuMin, RAMGBMin |-> ramMin,
     RAMGBRecommended |-> ramRec, StorageGBMin |-> storageMin,
     StorageType |-> storageType, GPURequired |-> gpuRequired,
     GPUVRAMGBMin |-> vramMin, NetworkMbpsMin |-> netMin,
     SupportedOS |-> supportedOS, EstimatedCostMin |-> 5,
     EstimatedCostMax |-> 50, CostCategory |-> <<"M", "e", "d", "i", "u", "m">>,
     HomeFriendly |-> homeFriendly, Description |-> <<>>]

\* supported_os values.
OS_All ==
    <<"L", "i", "n", "u", "x", ",", "W", "i", "n", "d", "o", "w", "s", ",", "m", "a", "c", "O", "S">>
OS_LinuxOnly == S_Linux
\* A list whose second entry has a vertical tab and a space before it and a
\* no-break space after it.
OS_Spaced ==
    <<"W", "i", "n", "d", "o", "w", "s", ",", "", " ", "L", "i", "n", "u", "x", " ">>
OS_Any == <<>>

\* Scenario A of the specification.
SystemA == SystemSpec(8, 16, 512, TRUE, TRUE, 8, 100, S_Windows)
ProjectA ==
    Project(<<"S", "c", "e", "n", "a", "r", "i", "o", "A">>,
            4, 8, 16, 500, S_SSD, FALSE, 0, 20, OS_All, FALSE)

\* Scenario B of the specification.
SystemB == SystemSpec(2, 4, 100, FALSE, FALSE, 0, 10, S_Windows)
ProjectB ==
    Project(<<"S", "c", "e", "n", "a", "r", "i", "o", "B">>,
            8, 16, 0, 1000, S_SSD, TRUE, 0, 200, OS_LinuxOnly,
            FALSE)

\* The values of each SystemSpec field in the scorer's grid.  Against the
\* grid project (4 cores, 8 GB, 16 GB recommended, 500 GB, 20 Mbps, 0 or 8 GB
\* of VRAM) each dimension takes every outcome: below the minimum, equal to
\* it, above it, above twice it.
GridCPU == {2, 4, 8, 9}
GridRAM == {4, 8, 16, 17, 33}
GridStorage == {100, 512}
GridVRAM == {0, 8, 12}
GridNetwork == {10, 20, 100}
GridOS == {S_Windows, S_Linux}

GridSystems ==
    {SystemSpec(cpu, ram, storage, ssd, gpu, vram, net, os) :
        cpu \in GridCPU, ram \in GridRAM, storage \in GridStorage,
        ssd \in BOOLEAN, gpu \in BOOLEAN, vram \in GridVRAM,
        net \in GridNetwork, os \in GridOS}

GridProjects ==
    {Project(<<"G", "r", "i", "d">>,
            4, 8, 16, 500, storageType, gpuRequired, vramMin, 20,
             supportedOS, ~gpuRequired) :
        storageType \in {S_SSD, S_Any}, gpuRequired \in BOOLEAN,
        vramMin \in {0, 8}, supportedOS \in {OS_Any, OS_LinuxOnly, OS_Spaced}}

\* Scenario D of the specification: projects whose minima some grid systems
\* meet exactly, with the recommended RAM equal to the minimum.
ScenarioDProjects ==
    {Project(<<"S", "c", "e", "n", "a", "r", "i", "o", "D">>,
             4, 8, 8, 100, S_Any, gpuRequired, vramMin, 20, OS_Spaced, TRUE) :
        gpuRequired \in BOOLEAN, vramMin \in {0, 8}}

\* Projects whose supported_os differs from the systems' OS in letter case,
\* or has entries the systems' OS is a part of.
OS_Lower ==
    <<"l", "i", "n", "u", "x", ",", "w", "i", "n", "d", "o", "w", "s">>
OS_Longer ==
    <<"L", "i", "n", "u", "x", "6", "4", ",", " ", "W", "i", "n", "d", "o", "w", "s", " ", "S", "e", "r", "v", "e", "r">>
OSEdgeProjects ==
    {Project(<<"O", "S", "E", "d", "g", "e">>,
             4, 8, 16, 500, S_Any, FALSE, 0, 20, supportedOS, TRUE) :
        supportedOS \in {OS_Lower, OS_Longer}}

\* The systems and projects of the scorer's specification.
ScoreSystems == GridSystems \cup {SystemA, SystemB}
ScoreCatalogs ==
    {<<p>> : p \in GridProjects \cup ScenarioDProjects \cup OSEdgeProjects}
    \cup {<<[p EXCEPT !.HomeFriendly = home]>> :
              p \in {ProjectA, ProjectB}, home \in BOOLEAN}

\* The systems of the upgrade specification: the grid's resources on four
\* machines (with and without SSD and GPU).
UpgradeSystems ==
    {s \in GridSystems :
        /\ s.HasSSD = s.HasGPU
        /\ s.GPUVRAMGB \in {0, 12}
        /\ s.OS = S_Linux}

\* The systems that differ from system in at most one of cpu_cores, ram_gb,
\* storage_gb and network_mbps.
Variations(system) ==
    {system}
    \cup {[system EXCEPT !.CPUCores = v] : v \in GridCPU}
    \cup {[system EXCEPT !.RAMGB = v] : v \in GridRAM}
    \cup {[system EXCEPT !.StorageGB = v] : v \in GridStorage}
    \cup {[system EXCEPT !.NetworkMbps = v] : v \in GridNetwork}

\* The catalog projects of the aggregator's specification: a light node, a
\* storage node, a GPU node and a node that asks for VRAM only.
LightNode ==
    Project(<<"L", "i", "g", "h", "t">>,
            2, 4, 8, 64, S_Any, FALSE, 0, 10, OS_All, TRUE)
StorageNode ==
    Project(<<"S", "t", "o", "r", "a", "g", "e">>,
            8, 16, 32, 1000, S_SSD, FALSE, 0, 100, OS_LinuxOnly,
            FALSE)
GPUNode ==
    Project(<<"R", "e", "n", "d", "e", "r">>,
            4, 8, 16, 100, S_SSD, TRUE, 8, 50, OS_Spaced, TRUE)
VRAMNode ==
    Project(<<"V", "i", "s", "i", "o", "n">>,
            4, 8, 8, 100, S_Any, FALSE, 12, 20, OS_Any, TRUE)

CatalogProjects == {LightNode, StorageNode, GPUNode, VRAMNode}

\* The longest catalog of the aggregator's specification.
MaxCatalog == 3

\* The sequences over S of length 1..n.
RECURSIVE SeqsUpTo(_, _)
SeqsUpTo(S, n) ==
    IF n = 0 THEN {}
    ELSE LET shorter == SeqsUpTo(S, n - 1)
         IN  {<<x>> : x \in S} \cup shorter
             \cup {Append(q, x) : q \in shorter, x \in S}

Catalogs == SeqsUpTo(CatalogProjects, MaxCatalog)

\* The systems of the aggregator's specification.
SystemHigh == SystemSpec(16, 64, 2000, TRUE, TRUE, 24, 1000, S_Linux)
SystemMid == SystemSpec(4, 8, 256, TRUE, FALSE, 0, 50, S_Linux)
SystemMac == SystemSpec(8, 16, 512, TRUE, TRUE, 8, 100, S_macOS)
SystemOld == SystemSpec(4, 16, 1000, FALSE, TRUE, 4, 20, S_Windows)

RequestSystems ==
    {SystemA, SystemB, SystemHigh, SystemMid, SystemMac, SystemOld}

\* The number of calls a behaviour serves (time.Now() advances with each).
MaxClock == 2

\* What reader.Read() returns for a line the CSV reader cannot parse.
ReadError == [err |-> TRUE, fields |-> <<>>]

\* The header with the first field name of every column.
HeaderCanonical ==
    [err |-> FALSE, fields |->
      <<<<"p", "r", "o", "j", "e", "c", "t", "_", "n", "a", "m", "e">>,
        <<"p", "r", "o", "j", "e", "c", "t", "_", "t", "y", "p", "e">>,
        <<"n", "o", "d", "e", "_", "t", "y", "p", "e">>,
        <<"c", "p", "u", "_", "c", "o", "r", "e", "s", "_", "m", "i", "n">>,
        <<"r", "a", "m", "_", "g", "b", "_", "m", "i", "n">>,
        <<"r", "a", "m", "_", "g", "b", "_", "r", "e", "c", "o", "m", "m", "e", "n", "d", "e", "d">>,
        <<"s", "t", "o", "r", "a", "g", "e", "_", "g", "b", "_", "m", "i", "n">>,
        <<"s", "t", "o", "r", "a", "g", "e", "_", "t", "y", "p", "e">>,
        <<"g", "p", "u", "_", "r", "e", "q", "u", "i", "r", "e", "d">>,
        <<"g", "p", "u", "_", "v", "r", "a", "m", "_", "g", "b", "_", "m", "i", "n">>,
        <<"n", "e", "t", "w", "o", "r", "k", "_", "s", "p", "e", "e", "d", "_", "m", "b", "p", "s", "_", "m", "i", "n">>,
        <<"s", "u", "p", "p", "o", "r", "t", "e", "d", "_", "o", "s">>,
        <<"e", "s", "t", "i", "m", "a", "t", "e", "d", "_", "m", "o", "n", "t", "h", "l", "y", "_", "c", "o", "s", "t", "_", "u", "s", "d", "_", "m", "i", "n">>,
        <<"e", "s", "t", "i", "m", "a", "t", "e", "d", "_", "m", "o", "n", "t", "h", "l", "y", "_", "c", "o", "s", "t", "_", "u", "s", "d", "_", "m", "a", "x">>,
        <<"c", "o", "s", "t", "_", "c", "a", "t", "e", "g", "o", "r", "y">>,
        <<"h", "o", "m", "e", "_", "f", "r", "i", "e", "n", "d", "l", "y">>,
        <<"d", "e", "s", "c", "r", "i", "p", "t", "i", "o", "n">>>>]

\* The header with the alternate field names, in mixed case and with spaces.
HeaderAlternate ==
    [err |-> FALSE, fields |->
      <<<<" ", "P", "r", "o", "j", "e", "c", "t", " ", "N", "a", "m", "e", " ">>,
        <<"T", "Y", "P", "E">>,
        <<"N", "o", "d", "e", " ", "T", "y", "p", "e">>,
        <<"C", "P", "U", "_", "C", "o", "r", "e", "s", "_", "M", "i", "n">>,
        <<"r", "a", "m", "_", "m", "i", "n", "_", "g", "b">>,
        <<"r", "a", "m", "_", "r", "e", "c", "o", "m", "m", "e", "n", "d", "e", "d", "_", "g", "b">>,
        <<"s", "t", "o", "r", "a", "g", "e", "_", "m", "i", "n", "_", "g", "b">>,
        <<"S", "t", "o", "r", "a", "g", "e", " ", "T", "y", "p", "e">>,
        <<"G", "P", "U", "_", "R", "e", "q", "u", "i", "r", "e", "d">>,
        <<"g", "p", "u", "_", "v", "r", "a", "m", "_", "m", "i", "n", "_", "g", "b">>,
        <<"n", "e", "t", "w", "o", "r", "k", "_", "m", "b", "p", "s", "_", "m", "i", "n">>,
        <<"o", "s", "_", "s", "u", "p", "p", "o", "r", "t">>,
        <<"c", "o", "s", "t", "_", "m", "i", "n">>,
        <<"c", "o", "s", "t", "_", "m", "a", "x">>,
        <<"C", "o", "s", "t", " ", "C", "a", "t", "e", "g", "o", "r", "y">>,
        <<"H", "o", "m", "e", "_", "F", "r", "i", "e", "n", "d", "l", "y">>,
        <<"a", "d", "d", "i", "t", "i", "o", "n", "a", "l", "_", "r", "e", "q", "u", "i", "r", "e", "m", "e", "n", "t", "s">>>>]

\* A row with every column filled.
RowHelium ==
    [err |-> FALSE, fields |->
      <<<<"H", "e", "l", "i", "u", "m">>,
        <<" ", "W", "i", "r", "e", "l", "e", "s", "s", " ">>,
        <<"H", "o", "t", "s", "p", "o", "t">>, <<"2">>, <<"4">>, <<"8">>,
        <<"6", "4">>, <<"A", "n", "y">>, <<"n", "o">>, <<"0">>, <<"1", "0">>,
        <<"L", "i", "n", "u", "x", ",", "W", "i", "n", "d", "o", "w", "s">>,
        <<"5">>, <<"1", "5">>, <<"L", "o", "w">>, <<"y", "e", "s">>,
        <<"H", "o", "t", "s", "p", "o", "t">>>>]

\* A valid row with no type, node type, storage type, supported OS or cost
\* category; its cost is above 100.
RowRender ==
    [err |-> FALSE, fields |->
      <<<<"R", "e", "n", "d", "e", "r">>, <<>>, <<>>, <<"4">>, <<"8">>,
        <<"1", "6">>, <<"1", "0", "0">>, <<>>, <<"T", "R", "U", "E">>,
        <<"8">>, <<"5", "0">>, <<>>, <<"5", "0">>, <<"1", "5", "0">>, <<>>,
        <<"0">>, <<>>>>]

\* A valid row with no supported OS or cost category; its cost is between
\* 21 and 100.
RowFilecoin ==
    [err |-> FALSE, fields |->
      <<<<"F", "i", "l", "e", "c", "o", "i", "n">>,
        <<"S", "t", "o", "r", "a", "g", "e">>, <<"M", "i", "n", "e", "r">>,
        <<"8">>, <<"1", "6">>, <<"3", "2">>, <<"1", "0", "0", "0">>,
        <<"S", "S", "D">>, <<"f", "a", "l", "s", "e">>, <<"0">>,
        <<"1", "0", "0">>, <<" ">>, <<"2", "0">>, <<"6", "0">>, <<" ">>,
        <<"f", "a", "l", "s", "e">>, <<>>>>]

\* A valid row of two fields: every other column is missing.
RowAkash ==
    [err |-> FALSE, fields |->
      <<<<"A", "k", "a", "s", "h">>, <<"C", "o", "m", "p", "u", "t", "e">>>>]

\* A valid row whose CPU minimum is not a number.
RowFlux ==
    [err |-> FALSE, fields |->
      <<<<"F", "l", "u", "x">>, <<"C", "o", "m", "p", "u", "t", "e">>,
        <<"N", "o", "d", "e">>, <<"m", "a", "n", "y">>, <<"8">>, <<"1", "6">>,
        <<"2", "2", "0">>, <<"S", "S", "D">>, <<"n", "o">>, <<"0">>,
        <<"2", "5">>, <<"L", "i", "n", "u", "x">>, <<"1", "0">>, <<"2", "0">>,
        <<"L", "o", "w">>, <<"Y">>,
        <<"F", "l", "u", "x", " ", "n", "o", "d", "e">>>>]

\* A row whose project name is blank.
RowNameless ==
    [err |-> FALSE, fields |->
      <<<<" ", " ">>, <<"C", "o", "m", "p", "u", "t", "e">>,
        <<"N", "o", "d", "e">>, <<"2">>, <<"4">>, <<"8">>, <<"6", "4">>,
        <<"A", "n", "y">>, <<"n", "o">>, <<"0">>, <<"1", "0">>,
        <<"L", "i", "n", "u", "x">>, <<"5">>, <<"1", "5">>, <<"L", "o", "w">>,
        <<"y", "e", "s">>, <<>>>>]

\* A row whose CPU minimum is above 64.
RowGolem ==
    [err |-> FALSE, fields |->
      <<<<"G", "o", "l", "e", "m">>, <<"C", "o", "m", "p", "u", "t", "e">>,
        <<"P", "r", "o", "v", "i", "d", "e", "r">>, <<"6", "5">>, <<"8">>,
        <<"1", "6">>, <<"1", "0", "0">>, <<"S", "S", "D">>, <<"n", "o">>,
        <<"0">>, <<"5", "0">>, <<"L", "i", "n", "u", "x">>, <<"5">>,
        <<"1", "5">>, <<"L", "o", "w">>, <<"n", "o">>, <<>>>>]

\* A row whose RAM minimum is negative.
RowStorj ==
    [err |-> FALSE, fields |->
      <<<<"S", "t", "o", "r", "j">>, <<"S", "t", "o", "r", "a", "g", "e">>,
        <<"N", "o", "d", "e">>, <<"1">>, <<"-", "1">>, <<"4">>,
        <<"5", "5", "0">>, <<"A", "n", "y">>, <<"n", "o">>, <<"0">>, <<"5">>,
        <<"L", "i", "n", "u", "x", ",", "W", "i", "n", "d", "o", "w", "s", ",", "m", "a", "c", "O", "S">>,
        <<"2">>, <<"8">>, <<"L", "o", "w">>, <<"y", "e", "s">>, <<>>>>]

\* The rows parseProjectRecord accepts, the rows it rejects, and what a file
\* can hold after its header.
ValidRows == {RowHelium, RowRender, RowFilecoin, RowAkash, RowFlux}
RejectedRows == {RowNameless, RowGolem, RowStorj}
FileReads == ValidRows \cup RejectedRows \cup {ReadError}

\* The data files: one that cannot be opened, an empty one, one whose header
\* cannot be read, and a header followed by at most MaxRows reads.
MaxRows == 2

DataFiles ==
    {[opens |-> FALSE, reads |-> <<>>], [opens |-> TRUE, reads |-> <<>>],
     [opens |-> TRUE, reads |-> <<ReadError, RowHelium>>]}
    \cup {[opens |-> TRUE, reads |-> <<header>> \o reads] :
              header \in {HeaderCanonical, HeaderAlternate},
              reads \in {<<>>} \cup SeqsUpTo(FileReads, MaxRows)}

\* The data files the server is started on.
ServerFiles ==
    {[opens |-> FALSE, reads |-> <<>>],
     [opens |-> TRUE, reads |-> <<HeaderCanonical>>],
     [opens |-> TRUE, reads |-> <<HeaderCanonical, RowNameless, RowGolem>>],
     [opens |-> TRUE, reads |-> <<HeaderCanonical, RowHelium, ReadError>>],
     [opens |-> TRUE, reads |-> <<HeaderCanonical, RowHelium, RowFilecoin>>],
     [opens |-> TRUE, reads |-> <<HeaderAlternate, RowRender, RowStorj>>],
     [opens |-> TRUE, reads |-> <<HeaderAlternate, RowAkash>>]}

\* A SystemSpec with one field of SystemA changed to a value at or next to
\* an end of its binding range.
EdgeSystems ==
    {[SystemA EXCEPT !.CPUCores = v] : v \in {0, 1, 64, 65}}
    \cup {[SystemA EXCEPT !.RAMGB = v] : v \in {0, 1, 128, 129}}
    \cup {[SystemA EXCEPT !.StorageGB = v] : v \in {0, 31, 32, 8192, 8193}}
    \cup {[SystemA EXCEPT !.GPUVRAMGB = v] : v \in {-1, 0, 48, 49}}
    \cup {[SystemA EXCEPT !.NetworkMbps = v] : v \in {0, 1, 10000, 10001}}
    \cup {[SystemA EXCEPT !.OS = v] :
              v \in {S_Linux, S_macOS, <<>>, <<"l", "i", "n", "u", "x">>}}

\* The bodies of the requests to POST /predict: JSON that decodes to a
\* SystemSpec, or a body that does not decode.
Bodies ==
    {[wellFormed |-> TRUE, system |-> system] :
        system \in EdgeSystems \cup {SystemA, SystemB}}
    \cup {[wellFormed |-> FALSE,
           system |-> SystemSpec(0, 0, 0, FALSE, FALSE, 0, 0, <<>>)]}

\* The catalogs of the process that is sent every body.
RequestCatalogs == {<<LightNode, StorageNode>>, <<StorageNode, GPUNode>>}

\* The bodies of the requests the server handles side by side: one that
\* does not decode, one out of range, one at the end of a range, and two
\* ordinary ones.
ServerBodies ==
    {body \in Bodies :
        \/ ~body.wellFormed
        \/ body.system \in {SystemA, SystemB}
        \/ body.system.StorageGB \in {31, 32}}

-----------------------------------------------------------------------------
(* the state machine *)

VARIABLES
    service,    \* the CompatibilityService: its catalog and start time
    now,        \* the clock time.Now() reads
    served,     \* the calls served so far, in order: [system, response]
    file,       \* the CSV file at the configured data path
    phase,      \* where the process is: "start", "aborted" (no catalog),
                \* "failed" (no listener), "serving" or "stopped"
    replies,    \* the requests handled so far: [body, written]
    calls       \* the handlers of POST /predict in flight, or the calls
                \* of PredictCompatibility in flight, by caller

vars == <<service, now, served, file, phase, replies, calls>>

\* The state right after NewCompatibilityService(projects): the process is
\* serving, nothing was asked yet.  The specifications that start here leave
\* the data file out.
Constructed(projects) ==
    /\ service = NewCompatibilityService(projects, 0)
    /\ now = 0
    /\ served = <<>>
    /\ file = [opens |-> TRUE, reads |-> <<>>]
    /\ phase = "serving"
    /\ replies = <<>>
    /\ calls = <<>>

\* One call of PredictCompatibility(system), from entry to return.
Predict(system) ==
    /\ now < MaxClock
    /\ LET out == PredictCompatibility(service, system, now + 1)
       IN  /\ service' = out.service
           /\ served' = Append(served, [system   |-> system,
                                       response |-> out.response])
    /\ now' = now + 1
    /\ UNCHANGED <<file, phase, replies, calls>>

\* The aggregator: a service over any catalog, any request at any time.
Init == \E projects \in Catalogs : Constructed(projects)

Request == \E system \in RequestSystems : Predict(system)

Next == Request

Spec == Init /\ [][Next]_vars

\* The scorer: a service over one project, asked once about any system of
\* the grid.
InitScore == \E projects \in ScoreCatalogs : Constructed(projects)

ScoreRequest ==
    /\ served = <<>>
    /\ \E system \in ScoreSystems : Predict(system)

NextScore == ScoreRequest

SpecScore == InitScore /\ [][NextScore]_vars

\* The upgrade: a service over one project; the first request is any system
\* of UpgradeSystems, and the second changes at most one resource of it.
FirstRequest ==
    /\ served = <<>>
    /\ \E system \in UpgradeSystems : Predict(system)

VariedRequest ==
    /\ Len(served) = 1
    /\ \E system \in Variations(served[1].system) : Predict(system)

NextUpgrade == FirstRequest \/ VariedRequest

SpecUpgrade == InitScore /\ [][NextUpgrade]_vars

\* The system rating: a service over one of two catalogs, asked once about
\* any system around the thresholds of GetSystemRating.
RatingSystems ==
    {SystemSpec(cpu, ram, storage, ssd, gpu, vram, net, S_Linux) :
        cpu \in {3, 4, 7, 8, 11, 12}, ram \in {7, 8, 15, 16, 31, 32},
        storage \in {499, 500, 999, 1000}, ssd \in BOOLEAN,
        gpu \in BOOLEAN, vram \in {0, 5, 6, 11, 12},
        net \in {99, 100, 499, 500}}

RatingCatalogs == {<<LightNode>>, <<StorageNode, GPUNode>>}

InitRating == \E projects \in RatingCatalogs : Constructed(projects)

RatingRequest ==
    /\ served = <<>>
    /\ \E system \in RatingSystems : Predict(system)

NextRating == RatingRequest

SpecRating == InitRating /\ [][NextRating]_vars

\* The recommendations: a service over a catalog of up to MaxProjects
\* projects with different names, asked once.  EdgeNode recommends more RAM
\* than it needs, and SystemEdge has the RAM four projects need but not the
\* RAM three of them recommend.
EdgeNode ==
    Project(<<"E", "d", "g", "e">>,
            4, 8, 16, 100, S_Any, FALSE, 0, 50, OS_All, TRUE)
SystemEdge == SystemSpec(8, 8, 512, TRUE, TRUE, 8, 100, S_Linux)

NamedProjects ==
    {LightNode, StorageNode, GPUNode, VRAMNode, EdgeNode, ProjectA}

MaxProjects == 5

NamedCatalogs ==
    {q \in SeqsUpTo(NamedProjects, MaxProjects) :
        \A i, j \in DOMAIN q : q[i] = q[j] => i = j}

CatalogSystems == RequestSystems \cup {SystemEdge}

InitCatalog == \E projects \in NamedCatalogs : Constructed(projects)

CatalogRequest ==
    /\ served = <<>>
    /\ \E system \in CatalogSystems : Predict(system)

NextCatalog == CatalogRequest

SpecCatalog == InitCatalog /\ [][NextCatalog]_vars

\* The process before main() runs, with the data file it will read.
Starting(f) ==
    /\ service = NoService
    /\ now = 0
    /\ served = <<>>
    /\ file = f
    /\ phase = "start"
    /\ replies = <<>>
    /\ calls = <<>>

\* main() from its entry to the outcome of the start of the server: the
\* load fails, or the server listens, or it cannot.
Start ==
    /\ phase = "start"
    /\ \E listens \in BOOLEAN :
           /\ phase' = main(file, now, listens).phase
           /\ service' = main(file, now, listens).service
    /\ UNCHANGED <<now, served, file, replies, calls>>

\* main() receives SIGINT or SIGTERM and calls server.Shutdown: the server
\* accepts no further request; the handlers in flight may finish.
Shutdown ==
    /\ phase = "serving"
    /\ phase' = "stopped"
    /\ UNCHANGED <<service, now, served, file, replies, calls>>

\* The handlers in flight at once.
MaxHandlers == 2

\* The sequence q without its element i.
Without(q, i) == SubSeq(q, 1, i - 1) \o SubSeq(q, i + 1, Len(q))

\* The router dispatches a request to POST /predict with this body: net/http
\* runs its handler in a goroutine of its own.  (Every handler reads the
\* clock once, which bounds the requests of a behaviour.)
Accept(body) ==
    /\ phase = "serving"
    /\ Len(calls) < MaxHandlers
    /\ now + Len(calls) < MaxClock
    /\ calls' = Append(calls, [pc |-> "bind", body |-> body,
                               written |-> <<>>])
    /\ UNCHANGED <<service, now, served, file, phase, replies>>

\* Handler i reads the body from the connection, binds and validates it;
\* the 400 it builds on a failure reads the clock.
Bind(i) ==
    /\ calls[i].pc = "bind"
    /\ calls' = [calls EXCEPT ![i] = BindRequest(calls[i])]
    /\ now' = IF BindRequest(calls[i]).written # <<>> THEN now + 1 ELSE now
    /\ UNCHANGED <<service, served, file, phase, replies>>

\* Handler i calls the service, from the entry of PredictCompatibility to
\* its return.
Call(i) ==
    /\ calls[i].pc = "call"
    /\ LET out == CallService(calls[i],
                              PredictCompatibility(service,
                                                   calls[i].body.system,
                                                   now + 1))
       IN  /\ service' = out.service
           /\ served' = Append(served, out.call)
           /\ calls' = [calls EXCEPT ![i] = out.handler]
    /\ now' = now + 1
    /\ UNCHANGED <<file, phase, replies>>

\* Handler i writes its reply to the connection (c.JSON) and returns.
Reply(i) ==
    /\ calls[i].pc = "reply"
    /\ replies' = Append(replies, [body    |-> calls[i].body,
                                   written |-> calls[i].written])
    /\ calls' = Without(calls, i)
    /\ UNCHANGED <<service, now, served, file, phase>>

\* The loader: main() on any data file.
InitLoad == \E f \in DataFiles : Starting(f)

NextLoad == Start

SpecLoad == InitLoad /\ [][NextLoad]_vars

\* The server: main() on a data file, then requests with any body.
InitServer == \E f \in ServerFiles : Starting(f)

AcceptRequest == \E body \in ServerBodies : Accept(body)

HandlerStep == \E i \in DOMAIN calls : Bind(i) \/ Call(i) \/ Reply(i)

NextServer == Start \/ AcceptRequest \/ HandlerStep \/ Shutdown

SpecServer == InitServer /\ [][NextServer]_vars

\* The requests: a serving process whose client sends one request after the
\* reply to the one before, with any body.
InitRequest == \E projects \in RequestCatalogs : Constructed(projects)

AcceptNext == calls = <<>> /\ \E body \in Bodies : Accept(body)

NextRequest == AcceptNext \/ HandlerStep

SpecRequest == InitRequest /\ [][NextRequest]_vars

\* The goroutines that call the service side by side, and the reads of the
\* catalog made next to them.
MaxCallers == 2
MaxReads == 1
Callers == 1..MaxCallers

ConcurrentCatalogs ==
    {<<LightNode, StorageNode>>, <<StorageNode, GPUNode, LightNode>>}

ConcurrentSystems == {SystemHigh, SystemMid, SystemOld}

\* Caller c enters PredictCompatibility(system).
Begin(c, system) ==
    /\ calls[c].pc = "idle"
    /\ calls' = [calls EXCEPT ![c] = NewCall(system)]
    /\ UNCHANGED <<service, now, served, file, phase, replies>>

\* Caller c runs one iteration of the loop.
LoopStep(c) ==
    /\ calls[c].pc = "loop"
    /\ calls[c].passed < Len(service.projects)
    /\ calls' = [calls EXCEPT ![c] = ScoreNext(service, calls[c])]
    /\ UNCHANGED <<service, now, served, file, phase, replies>>

\* Caller c leaves the loop and sorts.
SortStep(c) ==
    /\ calls[c].pc = "loop"
    /\ calls[c].passed >= Len(service.projects)
    /\ service' = SortCall(service, calls[c]).service
    /\ calls' = [calls EXCEPT ![c] = SortCall(service, calls[c]).call]
    /\ UNCHANGED <<now, served, file, phase, replies>>

\* Caller c builds the response and returns it.
RespondStep(c) ==
    /\ calls[c].pc = "respond"
    /\ served' = Append(served,
                        [system   |-> calls[c].system,
                         response |-> RespondCall(service, calls[c],
                                                  now + 1)])
    /\ now' = now + 1
    /\ calls' = [calls EXCEPT ![c] = [pc |-> "done"]]
    /\ UNCHANGED <<service, file, phase, replies>>

\* A goroutine reads the catalog with GetProjects().
ReadProjects ==
    /\ Len(replies) < MaxReads
    /\ replies' = Append(replies, [read   |-> "GetProjects",
                                  result |-> GetProjects(service)])
    /\ UNCHANGED <<service, now, served, file, phase, calls>>

\* A goroutine reads the catalog with GetProjectSummary().
ReadSummary ==
    /\ Len(replies) < MaxReads
    /\ replies' = Append(replies, [read   |-> "GetProjectSummary",
                                  result |-> GetProjectSummary(service)])
    /\ UNCHANGED <<service, now, served, file, phase, calls>>

\* The concurrent callers: a constructed service, each caller yet to call.
InitConcurrent ==
    /\ \E projects \in ConcurrentCatalogs :
           service = NewCompatibilityService(projects, 0)
    /\ now = 0
    /\ served = <<>>
    /\ file = [opens |-> TRUE, reads |-> <<>>]
    /\ phase = "serving"
    /\ replies = <<>>
    /\ calls = [c \in Callers |-> [pc |-> "idle"]]

CallerStep ==
    \E c \in Callers :
        \/ \E system \in ConcurrentSystems : Begin(c, system)
        \/ LoopStep(c)
        \/ SortStep(c)
        \/ RespondStep(c)

NextConcurrent == CallerStep \/ ReadProjects \/ ReadSummary

SpecConcurrent == InitConcurrent /\ [][NextConcurrent]_vars

-----------------------------------------------------------------------------
(* the properties *)

\* Every result of a response, compatible ones first.
AllResults(response) ==
    response.CompatibleProjects \o response.IncompatibleProjects

\* The results of every call served, each with the system it was scored
\* for: the set of [system, result] pairs.
ServedResults ==
    UNION {{[system |-> served[c].system,
             result |-> AllResults(served[c].response)[i]] :
               i \in 1..Len(AllResults(served[c].response))} :
           c \in DOMAIN served}

\* The project of a one-project catalog.
TheProject == service.projects[1]

\* C1: the compatibility_score of every result of every call served lies in
\* [0.0, 1.0].
C1_ScoreInUnitInterval ==
    \A sr \in ServedResults :
        /\ F64Geq(sr.result.CompatibilityScore, F_0)
        /\ F64Leq(sr.result.CompatibilityScore, F_1)

\* C1 witness: a call served whose bonuses carried the score above 1.0 before
\* the clamp, and whose result has score exactly 1.0.
C1_Witness ==
    \E sr \in ServedResults :
        /\ F64Gt(Accumulate(sr.system, TheProject).score, F_1)
        /\ sr.result.CompatibilityScore = F_1

\* The failure conditions of the dimension table, read off the two inputs.
AnyDimensionFails(system, project) ==
    \/ system.CPUCores < project.CPUCoresMin
    \/ system.RAMGB < project.RAMGBMin
    \/ system.StorageGB < project.StorageGBMin
    \/ (project.StorageType = S_SSD /\ ~system.HasSSD)
    \/ (project.GPURequired /\ ~system.HasGPU)
    \/ (project.GPUVRAMGBMin > 0 /\ system.GPUVRAMGB < project.GPUVRAMGBMin)
    \/ system.NetworkMbps < project.NetworkMbpsMin
    \/ ~isOSCompatible(system.OS, project.SupportedOS)

\* C2: a result is compatible=false exactly when at least one dimension
\* fails for its system and project.
C2_CompatibleIffNoFailure ==
    \A sr \in ServedResults :
        sr.result.Compatible = ~AnyDimensionFails(sr.system, TheProject)

\* C2 witness: a result that is compatible=false and has a score above 0.
C2_Witness ==
    \E sr \in ServedResults :
        /\ ~sr.result.Compatible
        /\ F64Gt(sr.result.CompatibilityScore, F_0)

\* C3: the performance_rating of every result is the one the thresholds
\* 0.9, 0.7 and 0.5 give its clamped score.
C3_RatingFromScore ==
    \A sr \in ServedResults :
        LET score  == sr.result.CompatibilityScore
            rating == sr.result.PerformanceRating
        IN  /\ (rating = "Excellent") = F64Geq(score, ScoreExcellent)
            /\ (rating = "Good") = (F64Geq(score, ScoreGood)
                                    /\ F64Lt(score, ScoreExcellent))
            /\ (rating = "Fair") = (F64Geq(score, ScoreFair)
                                    /\ F64Lt(score, ScoreGood))
            /\ (rating = "Poor") = F64Lt(score, ScoreFair)

\* C3 witness: a result that is compatible=false and rated Excellent, its
\* score being at least 0.9.
C3_Witness ==
    \E sr \in ServedResults :
        /\ ~sr.result.Compatible
        /\ F64Geq(sr.result.CompatibilityScore, ScoreExcellent)
        /\ sr.result.PerformanceRating = "Excellent"

\* The number of elements of the sequence q that satisfy Test.
CountIn(q, Test(_)) == Cardinality({i \in 1..Len(q) : Test(q[i])})

\* C4: every response holds one result per catalog project (each project
\* name as often among the results as in the catalog), compatible results in
\* compatible_projects, the others in incompatible_projects, and the counts
\* of the summary are the lengths of the lists and add up to the catalog size.
C4_OneResultPerProject ==
    \A c \in DOMAIN served :
        LET response == served[c].response
            summary  == response.Summary
        IN  /\ \A p \in CatalogProjects :
                   LET IsP(x) == x.Name = p.Name
                   IN  CountIn(AllResults(response), IsP)
                       = CountIn(service.projects, IsP)
            /\ \A i \in 1..Len(response.CompatibleProjects) :
                   response.CompatibleProjects[i].Compatible
            /\ \A i \in 1..Len(response.IncompatibleProjects) :
                   ~response.IncompatibleProjects[i].Compatible
            /\ summary.CompatibleCount = Len(response.CompatibleProjects)
            /\ summary.IncompatibleCount = Len(response.IncompatibleProjects)
            /\ summary.TotalProjects = Len(service.projects)
            /\ summary.CompatibleCount + summary.IncompatibleCount
               = summary.TotalProjects

\* C4 witness: a response over a catalog of MaxCatalog projects with both
\* lists non-empty.
C4_Witness ==
    \E c \in DOMAIN served :
        /\ Len(service.projects) = MaxCatalog
        /\ served[c].response.CompatibleProjects # <<>>
        /\ served[c].response.IncompatibleProjects # <<>>

\* 100.0 and 1.0 in the form of F64Scaled.
Hundred == F64Normal(F64(100, 0), 28)
Unit == F64Normal(F_1, 0)

\* The limbs of x (0 <= x.hi < 2^30) as four digits of 15 bits, the least
\* significant first.
Digits15(x) ==
    <<x.lo % 32768, x.lo \div 32768, x.hi % 32768, x.hi \div 32768>>

\* The exact product of the digits d by an integer 0 <= n < 2^15, the last
\* digit unbounded.
TimesDigits(d, n) ==
    LET p1 == d[1] * n
        p2 == d[2] * n + (p1 \div 32768)
        p3 == d[3] * n + (p2 \div 32768)
        p4 == d[4] * n + (p3 \div 32768)
    IN  <<p1 % 32768, p2 % 32768, p3 % 32768, p4>>

\* The difference a - b of two numbers in digits, from the digit i down
\* with t the difference of the digits above i: exact when its magnitude is
\* at most 2^15, and 2^16 with its sign otherwise.
RECURSIVE DigitsDiff(_, _, _, _)
DigitsDiff(a, b, i, t) ==
    IF t > 32768 THEN 65536
    ELSE IF t < 0 - 32768 THEN 0 - 65536
    ELSE IF i = 0 THEN t
    ELSE DigitsDiff(a, b, i - 1, t * 32768 + a[i] - b[i])

\* n * x - y for float64 values x >= 0 and y > 0 (in the form of F64Scaled)
\* and an integer 0 < n < 2^15, computed exactly, in units of the low limb
\* of x (a unit in the last place of x is 64 of them); 2^16 with its sign
\* when the magnitude is above 2^15.
Excess(x, n, y) ==
    IF y.exp < x.exp THEN 65536
    ELSE IF y.exp - x.exp > 14 THEN 0 - 65536
    ELSE DigitsDiff(TimesDigits(Digits15(x), n),
                    TimesDigits(Digits15(y), Pow2(y.exp - x.exp)), 4, 0)

\* The magnitude of an integer.
Abs(i) == IF i < 0 THEN 0 - i ELSE i

\* C5: in every response compatibility_rate is the float64 of 100 *
\* compatible_count / total_projects of that response's own lists:
\* total_projects times the rate is less than 2 * total_projects units in
\* the last place of the rate from 100 * compatible_count (the code rounds
\* the division and then the multiplication), the rate is exactly 0 and
\* 100 at the ends, and between 0 and 100.
C5_RateFromCounts ==
    \A c \in DOMAIN served :
        LET response == served[c].response
            rate     == response.Summary.CompatibilityRate
            count    == Len(response.CompatibleProjects)
            total    == Len(AllResults(response))
        IN  /\ total > 0
            /\ rate # F64NaN
            /\ IF count = 0 THEN rate = F64Scaled(0, 0, 0)
               ELSE Abs(Excess(rate, total, F64Normal(F64(100 * count, 0), 28)))
                    < 2 * total * 64
            /\ count = total => rate = Hundred
            /\ rate.hi >= 0
            /\ F64ScaledLeq(rate, Hundred)

\* C5 witness: a second call whose rate is strictly between 0 and 100, is
\* below the exact quotient (1 of 3: 33.33333333333333) and differs from
\* the rate of the call before it.
C5_Witness ==
    /\ Len(served) >= 2
    /\ LET first  == served[1].response.Summary.CompatibilityRate
           second == served[2].response.Summary.CompatibilityRate
           count  == served[2].response.Summary.CompatibleCount
           total  == served[2].response.Summary.TotalProjects
       IN  /\ second.hi > 0
           /\ second # Hundred
           /\ Excess(second, total, F64Normal(F64(100 * count, 0), 28)) < 0
           /\ first # second

\* The orders in which n results can be added: the permutations of 1..n.
Orders(n) ==
    {f \in [1..n -> 1..n] : \A i, j \in 1..n : f[i] = f[j] => i = j}

\* The float64 sum of the scores of the first k results of q taken in the
\* order f, added one by one from 0.0.
RECURSIVE SumScores(_, _, _)
SumScores(q, f, k) ==
    IF k = 0 THEN F_0
    ELSE F64Add(SumScores(q, f, k - 1), q[f[k]].CompatibilityScore)

\* The value average is the float64 of total / n: n * average is within
\* n / 2 units in the last place of average from total.
IsQuotient(average, total, n) ==
    IF total = F_0 THEN average = F64Scaled(0, 0, 0)
    ELSE 2 * Abs(Excess(average, n, F64Normal(total, 0))) <= n * 64

\* The value x lies in [0, 1].
InUnitInterval(x) == x.hi >= 0 /\ F64ScaledLeq(x, Unit)

\* C6: in every response average_score is the float64 quotient of the
\* float64 sum of the scores of all its results, compatible and incompatible
\* (added in some order: float64 addition rounds, and the code adds in
\* catalog order), by total_projects; it lies in [0, 1].
C6_AverageOfAllScores ==
    \A c \in DOMAIN served :
        LET response == served[c].response
            results  == AllResults(response)
            average  == response.Summary.AverageScore
        IN  /\ response.Summary.TotalProjects > 0
            /\ average # F64NaN
            /\ \E f \in Orders(Len(results)) :
                   IsQuotient(average, SumScores(results, f, Len(results)),
                              response.Summary.TotalProjects)
            /\ InUnitInterval(average)

\* C6 witness: a response with a compatible and an incompatible result of
\* non-zero score, whose average is strictly between 0 and 1 and is not the
\* exact quotient of the sum by the count.
C6_Witness ==
    \E c \in DOMAIN served :
        LET response == served[c].response
            average  == response.Summary.AverageScore
        IN  /\ response.CompatibleProjects # <<>>
            /\ \E i \in 1..Len(response.IncompatibleProjects) :
                   F64Gt(response.IncompatibleProjects[i].CompatibilityScore,
                         F_0)
            /\ average.hi > 0
            /\ average # Unit
            /\ \A f \in Orders(Len(AllResults(response))) :
                   Excess(average, response.Summary.TotalProjects,
                          F64Normal(SumScores(AllResults(response), f,
                                              Len(AllResults(response))),
                                    0)) # 0

\* A response without its generation time.
WithoutTime(response) == [response EXCEPT !.GeneratedAt = 0]

\* C7: two calls served with the same system (on the same service, hence the
\* same catalog) have the same compatible_projects, incompatible_projects,
\* summary and recommendations; only generated_at may differ.
C7_Idempotent ==
    \A i, j \in DOMAIN served :
        served[i].system = served[j].system
        => WithoutTime(served[i].response) = WithoutTime(served[j].response)

\* C7 witness: two calls with the same system, whose responses list at least
\* two compatible projects and differ in generated_at.
C7_Witness ==
    \E i, j \in DOMAIN served :
        /\ i < j
        /\ served[i].system = served[j].system
        /\ Len(served[j].response.CompatibleProjects) >= 2
        /\ served[i].response.GeneratedAt # served[j].response.GeneratedAt

\* The resources of the monotonicity property.
Resources == {"CPUCores", "RAMGB", "StorageGB", "NetworkMbps"}

\* The score of the one result of a response over a one-project catalog.
TheScore(response) == AllResults(response)[1].CompatibilityScore

\* C8: of two calls whose systems differ only in one resource, the one with
\* the larger value of that resource does not get the lower score.
C8_Monotone ==
    \A i, j \in DOMAIN served :
        \A field \in Resources :
            LET a == served[i].system
                b == served[j].system
            IN  ([a EXCEPT ![field] = b[field]] = b /\ a[field] < b[field])
                => F64Leq(TheScore(served[i].response),
                          TheScore(served[j].response))

\* C8 witness: the first system fails the project's CPU minimum, the second
\* differs only in having enough cores, and its score is strictly higher.
C8_Witness ==
    \E i, j \in DOMAIN served :
        LET a == served[i].system
            b == served[j].system
        IN  /\ [a EXCEPT !.CPUCores = b.CPUCores] = b
            /\ a.CPUCores < TheProject.CPUCoresMin
            /\ b.CPUCores >= TheProject.CPUCoresMin
            /\ F64Lt(TheScore(served[i].response),
                     TheScore(served[j].response))

\* The catalogs of one project that is the Scenario A project, or the
\* Scenario B project, with either value of the flag the scenarios leave open.
ScenarioACatalogs == {<<[ProjectA EXCEPT !.HomeFriendly = h]>> : h \in BOOLEAN}
ScenarioBCatalogs == {<<[ProjectB EXCEPT !.HomeFriendly = h]>> : h \in BOOLEAN}

\* The one result of the last call served.
LastResult == AllResults(served[Len(served)].response)[1]

\* C9: Scenario A gives compatible=true, no missing requirement, no
\* recommended upgrade and a score of at least 0.9.
C9_ScenarioA ==
    (/\ served # <<>>
     /\ served[Len(served)].system = SystemA
     /\ service.projects \in ScenarioACatalogs)
    => /\ LastResult.Compatible
       /\ LastResult.MissingRequirements = <<>>
       /\ LastResult.RecommendedUpgrades = <<>>
       /\ F64Geq(LastResult.CompatibilityScore, ScoreExcellent)

\* C9 witness: the Scenario A system has been scored against the Scenario A
\* project.
C9_Witness ==
    /\ served # <<>>
    /\ served[Len(served)].system = SystemA
    /\ service.projects \in ScenarioACatalogs
    /\ LastResult.Name = <<"S", "c", "e", "n", "a", "r", "i", "o", "A">>
    /\ ~TheProject.HomeFriendly

\* C10: Scenario B gives compatible=false, a score of exactly 0.0 and the
\* rating Poor.
C10_ScenarioB ==
    (/\ served # <<>>
     /\ served[Len(served)].system = SystemB
     /\ service.projects \in ScenarioBCatalogs)
    => /\ ~LastResult.Compatible
       /\ LastResult.CompatibilityScore = F_0
       /\ LastResult.PerformanceRating = "Poor"

\* C10 witness: the Scenario B system has been scored against the Scenario B
\* project, and the score before the clamp was below 0.
C10_Witness ==
    /\ served # <<>>
    /\ served[Len(served)].system = SystemB
    /\ service.projects \in ScenarioBCatalogs
    /\ LastResult.Name = <<"S", "c", "e", "n", "a", "r", "i", "o", "B">>
    /\ TheProject.HomeFriendly
    /\ F64Lt(Accumulate(SystemB, ProjectB).score, F_0)

\* C11 as stated: for the Scenario B system and project the result's
\* missing_requirements list has 6 entries.
C11_SixEntries ==
    (/\ served # <<>>
     /\ served[Len(served)].system = SystemB
     /\ service.projects \in ScenarioBCatalogs)
    => Len(LastResult.MissingRequirements) = 6

\* C11 as amended: for the Scenario B system and project the result's
\* missing_requirements list has 7 entries, one for each failing dimension
\* (CPU, RAM, storage, SSD, GPU, network, OS).
C11_SevenEntries ==
    (/\ served # <<>>
     /\ served[Len(served)].system = SystemB
     /\ service.projects \in ScenarioBCatalogs)
    => Len(LastResult.MissingRequirements) = 7

\* C11 witness: Scenario B has been scored, and the last of its entries is
\* the OS one.
C11_Witness ==
    /\ served # <<>>
    /\ served[Len(served)].system = SystemB
    /\ service.projects \in ScenarioBCatalogs
    /\ LastResult.MissingRequirements # <<>>
    /\ StrContains(LastResult.MissingRequirements[
                       Len(LastResult.MissingRequirements)], S_OS_need)

\* The systems and projects of Scenario D as the claim words it: no SSD
\* project, VRAM not above 8, recommended RAM equal to the minimum, every
\* resource exactly at the project's minimum, and a supported OS.
ScenarioD(system, project) ==
    /\ project.StorageType # S_SSD
    /\ system.GPUVRAMGB <= 8
    /\ project.RAMGBRecommended = project.RAMGBMin
    /\ system.CPUCores = project.CPUCoresMin
    /\ system.RAMGB = project.RAMGBMin
    /\ system.StorageGB = project.StorageGBMin
    /\ system.GPUVRAMGB = project.GPUVRAMGBMin
    /\ system.NetworkMbps = project.NetworkMbpsMin
    /\ isOSCompatible(system.OS, project.SupportedOS)

\* A result with score exactly 1.0, compatible=true and rating Excellent.
Perfect(result) ==
    /\ result.CompatibilityScore = F_1
    /\ result.Compatible
    /\ result.PerformanceRating = "Excellent"

\* C12 as stated: every Scenario D system and project gives score exactly
\* 1.0, compatible=true and rating Excellent.
C12_ScenarioD ==
    \A sr \in ServedResults :
        ScenarioD(sr.system, TheProject) => Perfect(sr.result)

\* C12 as amended: every Scenario D system and project, where the system has
\* a GPU if the project requires one, gives score exactly 1.0,
\* compatible=true and rating Excellent.
C12_ScenarioDWithGPU ==
    \A sr \in ServedResults :
        (/\ ScenarioD(sr.system, TheProject)
         /\ (TheProject.GPURequired => sr.system.HasGPU))
        => Perfect(sr.result)

\* C12 witness: a Scenario D result for a project that requires a GPU and
\* 8 GB of VRAM, whose score before the clamp is exactly 1.0.
C12_Witness ==
    \E sr \in ServedResults :
        /\ ScenarioD(sr.system, TheProject)
        /\ TheProject.GPURequired
        /\ sr.system.HasGPU
        /\ TheProject.GPUVRAMGBMin = 8
        /\ Accumulate(sr.system, TheProject).score = F_1
        /\ Perfect(sr.result)

\* supported[i..j] is one comma-separated entry of supported: it holds no
\* comma and is bounded by commas or by the ends of the string.
IsEntry(supported, i, j) ==
    /\ i = 1 \/ supported[i - 1] = ","
    /\ j = Len(supported) \/ supported[j + 1] = ","
    /\ \A k \in i..j : supported[k] # ","

\* The OS rule as the claim words it: supported_os is empty, or os equals
\* one of its comma-separated entries with the surrounding white space
\* trimmed.
OSPasses(os, supported) ==
    \/ supported = <<>>
    \/ \E i \in 1..(Len(supported) + 1) :
          \E j \in (i - 1)..Len(supported) :
              /\ IsEntry(supported, i, j)
              /\ TrimSpace(SubSeq(supported, i, j)) = os

\* The accumulator of analyzeProjectCompatibility before its OS check.
BeforeOS(system, project) ==
    CheckNetwork(
        CheckGPU(
            CheckSSD(
                CheckStorage(
                    CheckRAM(
                        CheckCPU([result |-> NewResult(project),
                                  score  |-> F_1],
                                 system, project),
                        system, project),
                    system, project),
                system, project),
            system, project),
        system, project)

\* The OS check passed: no entry was added, the flag is that of the other
\* checks, and only the bonus was added to the score.
OSCheckPassed(before, after, bonus) ==
    /\ after.result.MissingRequirements = before.result.MissingRequirements
    /\ after.result.Compatible = before.result.Compatible
    /\ after.score = F64Add(before.score, bonus)

\* The OS check failed: compatible=false, one more entry (the OS one), and
\* 0.30 subtracted from the score before the bonus was added.
OSCheckFailed(before, after, bonus) ==
    /\ Len(after.result.MissingRequirements)
           = Len(before.result.MissingRequirements) + 1
    /\ SubSeq(after.result.MissingRequirements, 1,
              Len(before.result.MissingRequirements))
           = before.result.MissingRequirements
    /\ StrContains(after.result.MissingRequirements[
                       Len(after.result.MissingRequirements)], S_OS_need)
    /\ ~after.result.Compatible
    /\ after.score = F64Add(F64Sub(before.score, F_0_3), bonus)

\* C13: the OS check of every call served passes exactly when the OS rule
\* holds of the system's os and the project's supported_os; a failed check
\* sets compatible=false, adds one missing_requirements entry and subtracts
\* 0.30.
C13_OSCheck ==
    \A sr \in ServedResults :
        LET before == BeforeOS(sr.system, TheProject)
            after  == Accumulate(sr.system, TheProject)
            bonus  == calculatePerformanceBonus(sr.system, TheProject)
        IN  /\ sr.result.MissingRequirements
                   = after.result.MissingRequirements
            /\ sr.result.Compatible = after.result.Compatible
            /\ IF OSPasses(sr.system.OS, TheProject.SupportedOS)
               THEN OSCheckPassed(before, after, bonus)
               ELSE OSCheckFailed(before, after, bonus)

\* C13 witness: a system whose os is part of an entry of supported_os, or
\* differs from one in letter case only, failed the OS check and nothing
\* else: one entry, score 0.7.
C13_Witness ==
    \E sr \in ServedResults :
        /\ TheProject.SupportedOS \in {OS_Lower, OS_Longer}
        /\ ~sr.result.Compatible
        /\ Len(sr.result.MissingRequirements) = 1
        /\ StrContains(sr.result.MissingRequirements[1], S_OS_need)
        /\ sr.result.CompatibilityScore = ScoreGood

\* The point total as the claim words it, one term per resource.
CPUPoints(cores) ==
    IF cores >= 12 THEN 3 ELSE IF cores >= 8 THEN 2
    ELSE IF cores >= 4 THEN 1 ELSE 0
RAMPoints(gb) ==
    IF gb >= 32 THEN 3 ELSE IF gb >= 16 THEN 2 ELSE IF gb >= 8 THEN 1 ELSE 0
GPUPoints(hasGPU, vram) ==
    IF ~hasGPU THEN 0
    ELSE IF vram >= 12 THEN 3 ELSE IF vram >= 6 THEN 2 ELSE 1
StoragePoints(hasSSD, gb) ==
    IF hasSSD /\ gb >= 1000 THEN 2
    ELSE IF hasSSD \/ gb >= 500 THEN 1 ELSE 0
NetworkPoints(mbps) ==
    IF mbps >= 500 THEN 2 ELSE IF mbps >= 100 THEN 1 ELSE 0
TotalPoints(system) ==
    CPUPoints(system.CPUCores) + RAMPoints(system.RAMGB)
    + GPUPoints(system.HasGPU, system.GPUVRAMGB)
    + StoragePoints(system.HasSSD, system.StorageGB)
    + NetworkPoints(system.NetworkMbps)

\* The label of a point total.
PointsLabel(total) ==
    IF total >= 12 THEN "Extreme"
    ELSE IF total >= 8 THEN "High-End"
    ELSE IF total >= 5 THEN "Mid-Range"
    ELSE "Entry Level"

\* C19: the summary.system_rating of every call served is the label of the
\* point total of the call's system, whatever the catalog, and the total is
\* between 0 and 13.
C19_SystemRating ==
    \A c \in DOMAIN served :
        /\ served[c].response.Summary.SystemRating
               = PointsLabel(TotalPoints(served[c].system))
        /\ TotalPoints(served[c].system) \in 0..13

\* C19 witness: a system without an SSD whose 500 GB give the storage point
\* that carries it to exactly 5 points, rated Mid-Range over the
\* two-project catalog.
C19_Witness ==
    \E c \in DOMAIN served :
        /\ Len(service.projects) = 2
        /\ ~served[c].system.HasSSD
        /\ served[c].system.StorageGB = 500
        /\ TotalPoints(served[c].system) = 5
        /\ served[c].response.Summary.SystemRating = "Mid-Range"

\* The file holds something LoadDePINSpecs can return: it opens, every read
\* of it succeeds, and a row after the header is one of the valid rows.
Loadable(f) ==
    /\ f.opens
    /\ f.reads # <<>>
    /\ \A i \in DOMAIN f.reads : ~f.reads[i].err
    /\ \E i \in 2..Len(f.reads) : f.reads[i] \in ValidRows

\* C14: the process serves only when the load of a file that opens, reads
\* without error and holds a valid row has returned a catalog of at least
\* one project; on any other file it aborts, and a process that has not
\* started serving (unstarted, aborted, or unable to listen) has accepted
\* and served nothing.  Every call of PredictCompatibility ran on a catalog
\* of at least one project.
C14_StartupOrdering ==
    /\ phase \in {"serving", "stopped", "failed"}
           => Loadable(file) /\ Len(service.projects) >= 1
    /\ phase = "aborted" => ~Loadable(file)
    /\ ~Loadable(file) => phase \in {"start", "aborted"}
    /\ phase \in {"start", "aborted", "failed"}
           => served = <<>> /\ replies = <<>> /\ calls = <<>>
    /\ \A c \in DOMAIN served :
           /\ served[c].response.Summary.TotalProjects >= 1
           /\ served[c].response.Summary.CompatibilityRate # F64NaN
           /\ served[c].response.Summary.AverageScore # F64NaN

\* C14 witness: the process serves a catalog shorter than the rows of its
\* file, a request was answered by the service, and every rate of the
\* response is a number.
C14_Witness ==
    /\ phase = "serving"
    /\ Len(file.reads) > Len(service.projects) + 1
    /\ \E c \in DOMAIN served :
           served[c].response.Summary.TotalProjects = Len(service.projects)

\* A process whose file loads and whose server cannot listen ends without
\* having served.
C14_CannotListen == phase = "failed" /\ Loadable(file)

\* The SystemSpec of a body is inside the documented ranges.
Documented(body) ==
    /\ body.wellFormed
    /\ body.system.CPUCores \in 1..64
    /\ body.system.RAMGB \in 1..128
    /\ body.system.StorageGB \in 32..8192
    /\ body.system.GPUVRAMGB \in 0..48
    /\ body.system.NetworkMbps \in 1..10000
    /\ body.system.OS \in {S_Windows, S_Linux, S_macOS}

\* The systems of the requests handled so far whose bodies are documented,
\* in order.
RECURSIVE DocumentedSystems(_)
DocumentedSystems(handled) ==
    IF handled = <<>> THEN <<>>
    ELSE IF Documented(Head(handled).body)
    THEN <<Head(handled).body.system>> \o DocumentedSystems(Tail(handled))
    ELSE DocumentedSystems(Tail(handled))

\* The handlers that have called the service: those that have returned
\* after a documented body, and those in flight that have the reply of the
\* service to write.
CallersOf(system) ==
    Cardinality({r \in DOMAIN replies :
                    /\ Documented(replies[r].body)
                    /\ replies[r].body.system = system})
    + Cardinality({i \in DOMAIN calls :
                    /\ calls[i].pc = "reply"
                    /\ Documented(calls[i].body)
                    /\ calls[i].body.system = system})

\* C17: a request whose body is not valid or whose SystemSpec is outside the
\* documented ranges is answered 400 and nothing else; a handler calls the
\* service only with a documented body, and the calls the service has
\* served are exactly those of the handlers with a documented body that
\* have passed their call: as many per system.
C17_RejectsBeforeService ==
    /\ \A r \in DOMAIN replies :
           ~Documented(replies[r].body) =>
               /\ Len(replies[r].written) = 1
               /\ replies[r].written[1].code = 400
    /\ \A i \in DOMAIN calls :
           /\ calls[i].pc = "call" => Documented(calls[i].body)
           /\ calls[i].pc = "reply" /\ ~Documented(calls[i].body)
                  => \A w \in DOMAIN calls[i].written :
                         calls[i].written[w].code = 400
    /\ \A body \in Bodies :
           Cardinality({c \in DOMAIN served :
                           served[c].system = body.system})
           = IF Documented(body) THEN CallersOf(body.system) ELSE 0

\* C17 witness: a request with 31 GB of storage was answered 400 and the
\* next request, with 32 GB, was served.
C17_Witness ==
    /\ Len(replies) = 2
    /\ replies[1].body.wellFormed
    /\ replies[1].body.system.StorageGB = 31
    /\ replies[1].written[1].code = 400
    /\ replies[2].body.system.StorageGB = 32
    /\ Len(served) = 1
    /\ served[1].system.StorageGB = 32

\* C20: the service returns a nil error for every documented body, and
\* every request handled was answered exactly once: 400 when the body is
\* not valid or out of range, else 200 with the response of the service.
C20_OneResponse ==
    /\ phase = "serving" =>
           \A body \in Bodies :
               Documented(body) =>
                   PredictCompatibility(service, body.system, now).err = "nil"
    /\ \A r \in DOMAIN replies :
           /\ Len(replies[r].written) = 1
           /\ replies[r].written[1].code # 500
           /\ IF Documented(replies[r].body)
              THEN /\ replies[r].written[1].code = 200
                   /\ \E c \in DOMAIN served :
                          replies[r].written[1].result = served[c].response
              ELSE replies[r].written[1].code = 400

\* C20 witness: a request was answered 200 with a response that holds no
\* compatible project, after a request answered 400.
C20_Witness ==
    /\ Len(replies) = 2
    /\ replies[1].written = <<ErrorResponse(400, "Invalid request format")>>
    /\ replies[2].written[1].code = 200
    /\ replies[2].written[1].result.Summary.CompatibleCount = 0
    /\ replies[2].written[1].result.Summary.TotalProjects >= 1

\* Two requests were served in one order and answered in the other.
C20_AnsweredOutOfOrder ==
    /\ Len(served) = 2
    /\ Len(replies) = 2
    /\ served[1].system # served[2].system
    /\ replies[1].written = <<[code |-> 200, result |-> served[2].response]>>
    /\ replies[2].written = <<[code |-> 200, result |-> served[1].response]>>

\* The project name a row carries in its first column.
NameOf(row) == TrimSpace(row.fields[1])

\* The names of the valid rows among reads, in order.
RECURSIVE ValidNames(_)
ValidNames(reads) ==
    IF reads = <<>> THEN <<>>
    ELSE IF Head(reads) \in ValidRows
    THEN <<NameOf(Head(reads))>> \o ValidNames(Tail(reads))
    ELSE ValidNames(Tail(reads))

\* The names of the catalog, in order.
CatalogNames == [i \in DOMAIN service.projects |-> service.projects[i].Name]

\* main() has run on a file that opens and whose header is read.
LoadedWithHeader ==
    /\ phase # "start"
    /\ file.opens
    /\ file.reads # <<>>
    /\ ~Head(file.reads).err

\* The load returned a catalog and main built the service over it, whether
\* or not the server could listen afterwards.
Loaded == phase \in {"serving", "failed", "stopped"}

\* The load returned exactly the valid rows' projects, in source order.
ReturnedValidRows ==
    /\ Loaded
    /\ CatalogNames = ValidNames(Tail(file.reads))

\* C15 as claimed: whenever the rows hold a valid row and a malformed one (a
\* row that cannot be read, has no name or fails validation), the load
\* returns exactly the valid rows' projects in source order.
C15_SkipsEveryMalformedRow ==
    LoadedWithHeader =>
        \A i, j \in 2..Len(file.reads) :
            /\ file.reads[i] \in ValidRows
            /\ file.reads[j] \in RejectedRows \cup {ReadError}
            => ReturnedValidRows

\* C15: whenever every row is read and the rows hold a valid row and a row
\* that has no name or fails validation, the load returns exactly the valid
\* rows' projects in source order, a number that does not parse being read
\* as 0; and whenever a row cannot be read, the whole load is aborted.
C15_SkipsRejectedRows ==
    LoadedWithHeader =>
        IF \E i \in 2..Len(file.reads) : file.reads[i].err
        THEN phase = "aborted"
        ELSE /\ \A i, j \in 2..Len(file.reads) :
                    /\ file.reads[i] \in ValidRows
                    /\ file.reads[j] \in RejectedRows
                    => ReturnedValidRows
             /\ \A i \in DOMAIN service.projects :
                    service.projects[i].Name = NameOf(RowFlux)
                    => service.projects[i].CPUCoresMin = 0

\* C15 witness: the load skipped a row whose CPU minimum is out of range
\* and returned the one project of the valid row after it.
C15_Witness ==
    /\ phase = "serving"
    /\ Len(file.reads) = 3
    /\ file.reads[2] = RowGolem
    /\ file.reads[3] \in ValidRows
    /\ CatalogNames = <<NameOf(file.reads[3])>>

\* The rows of ValidRows with no cost category and no supported OS, those
\* with no type, with no node type and with no storage type.
RowsWithoutCategory == {RowRender, RowFilecoin, RowAkash}
RowsWithoutType == {RowRender}
RowsWithoutNodeType == {RowRender, RowAkash}
RowsWithoutStorageType == {RowRender, RowAkash}

\* The project comes from one of rows.
ComesFrom(project, rows) == \E row \in rows : NameOf(row) = project.Name

\* The cost category of a cost range.
InferredCategory(costMax) ==
    IF costMax <= 20 THEN <<"L", "o", "w">>
    ELSE IF costMax <= 100 THEN <<"M", "e", "d", "i", "u", "m">>
    ELSE <<"H", "i", "g", "h">>

\* C16: in the catalog the load returned, a project whose row has no
\* cost_category carries the category of its estimated max cost, one whose
\* row has no supported_os carries "Linux,Windows,macOS", and an empty type,
\* node_type or storage_type is "Unknown", "Standard" or "Any".
C16_LoaderDefaults ==
    Loaded =>
        \A i \in DOMAIN service.projects :
            LET project == service.projects[i]
            IN  /\ ComesFrom(project, RowsWithoutCategory) =>
                       /\ project.CostCategory
                              = InferredCategory(project.EstimatedCostMax)
                       /\ project.SupportedOS = OS_All
                /\ ComesFrom(project, RowsWithoutType) =>
                       project.Type = <<"U", "n", "k", "n", "o", "w", "n">>
                /\ ComesFrom(project, RowsWithoutNodeType) =>
                       project.NodeType
                           = <<"S", "t", "a", "n", "d", "a", "r", "d">>
                /\ ComesFrom(project, RowsWithoutStorageType) =>
                       project.StorageType = S_Any

\* C18: whatever the interleaving, no step changes the catalog of the
\* service, every read returns the catalog as constructed, and every call
\* returns, apart from generated_at, the response PredictCompatibility gives
\* when run alone on the catalog.
C18_Independent ==
    /\ [][service' = service]_vars
    /\ [](\A c \in DOMAIN served :
            WithoutTime(served[c].response)
                = WithoutTime(PredictCompatibility(
                      service, served[c].system, 0).response))
    /\ [](\A r \in DOMAIN replies :
            /\ replies[r].read = "GetProjects"
                   => replies[r].result = service.projects
            /\ replies[r].read = "GetProjectSummary"
                   => replies[r].result = GetProjectSummary(service))

\* C18 witness: the second caller returned, with a response whose
\* incompatible projects the sort put in the reverse of the catalog's
\* order, while the first caller was still inside its loop.
C18_Witness ==
    /\ calls[1].pc = "loop"
    /\ calls[1].passed = 1
    /\ calls[2].pc = "done"
    /\ Len(served) = 1
    /\ Len(served[1].response.IncompatibleProjects) = 2
    /\ served[1].response.IncompatibleProjects[2].Name
           = service.projects[1].Name
    /\ served[1].response.IncompatibleProjects[1].Name
           = service.projects[2].Name

\* The penalties of the failing dimensions as the claim lists them, in
\* hundredths.
PenaltyHundredths(system, project) ==
    (IF system.CPUCores < project.CPUCoresMin THEN 30 ELSE 0)
    + (IF system.RAMGB < project.RAMGBMin THEN 30
       ELSE IF system.RAMGB < project.RAMGBRecommended THEN 10 ELSE 0)
    + (IF system.StorageGB < project.StorageGBMin THEN 20 ELSE 0)
    + (IF project.StorageType = S_SSD /\ ~system.HasSSD THEN 25 ELSE 0)
    + (IF project.GPURequired /\ ~system.HasGPU THEN 40
       ELSE IF project.GPUVRAMGBMin > 0
               /\ system.GPUVRAMGB < project.GPUVRAMGBMin THEN 30 ELSE 0)
    + (IF system.NetworkMbps < project.NetworkMbpsMin THEN 20 ELSE 0)
    + (IF ~OSPasses(system.OS, project.SupportedOS) THEN 30 ELSE 0)

\* The sum of the four sub-bonuses as the claim lists them, in hundredths.
SubBonusHundredths(system, project) ==
    (IF system.CPUCores > 2 * project.CPUCoresMin THEN 5
     ELSE IF system.CPUCores > project.CPUCoresMin THEN 2 ELSE 0)
    + (IF system.RAMGB > 2 * project.RAMGBRecommended THEN 5
       ELSE IF system.RAMGB > project.RAMGBRecommended THEN 2 ELSE 0)
    + (IF system.NetworkMbps > 2 * project.NetworkMbpsMin THEN 3 ELSE 0)
    + (IF system.HasGPU /\ system.GPUVRAMGB > 8 THEN 2 ELSE 0)

\* The performance bonus in hundredths: the sum, capped at 15.
BonusHundredths(system, project) ==
    IF SubBonusHundredths(system, project) > 15 THEN 15
    ELSE SubBonusHundredths(system, project)

\* The score before clamping as the claim words it, in hundredths.
UnclampedHundredths(system, project) ==
    100 - PenaltyHundredths(system, project)
    + (IF project.StorageType = S_SSD /\ system.HasSSD THEN 5 ELSE 0)
    + BonusHundredths(system, project)

\* The float64 x is k / 100 up to the rounding of float64 arithmetic: its
\* high limb is within 1 (2^-28) of floor(k * 2^28 / 100).
IsHundredths(x, k) ==
    LET expected == k * 2684354 + (56 * k) \div 100
    IN  x.hi - expected \in {-1, 0, 1}

\* C21: for every call served, the score before clamping is 1.0 minus the
\* penalty of every failing dimension, plus 0.05 for a wanted SSD that is
\* present, plus the performance bonus; the score of the result is that
\* value clamped.
C21_AllDimensions ==
    \A sr \in ServedResults :
        /\ IsHundredths(Accumulate(sr.system, TheProject).score,
                        UnclampedHundredths(sr.system, TheProject))
        /\ sr.result.CompatibilityScore
               = ClampScore(Accumulate(sr.system, TheProject).score)

\* C21 witness: every one of the seven dimensions fails (0.30 + 0.30 + 0.20
\* + 0.25 + 0.40 + 0.20 + 0.30 = 1.95), and the score before clamping is
\* -0.95.
C21_Witness ==
    \E sr \in ServedResults :
        /\ PenaltyHundredths(sr.system, TheProject) = 195
        /\ UnclampedHundredths(sr.system, TheProject) = -95
        /\ F64Lt(Accumulate(sr.system, TheProject).score, F_0)
        /\ sr.result.CompatibilityScore = F_0

\* C22: for every call served, the performance bonus is the sum of the four
\* sub-bonuses capped at 0.15, and lies in [0, 0.15].
C22_PerformanceBonus ==
    \A sr \in ServedResults :
        LET bonus == calculatePerformanceBonus(sr.system, TheProject)
        IN  /\ IsHundredths(bonus, BonusHundredths(sr.system, TheProject))
            /\ F64Geq(bonus, F_0)
            /\ F64Leq(bonus, F_0_15)

\* C22 witness: the four sub-bonuses are all earned (0.05 + 0.05 + 0.03 +
\* 0.02) and the bonus is 0.15.
C22_Witness ==
    \E sr \in ServedResults :
        /\ SubBonusHundredths(sr.system, TheProject) = 15
        /\ calculatePerformanceBonus(sr.system, TheProject) = F_0_15

\* The accumulator of analyzeProjectCompatibility before its GPU check.
BeforeGPU(system, project) ==
    CheckSSD(
        CheckStorage(
            CheckRAM(
                CheckCPU([result |-> NewResult(project), score |-> F_1],
                         system, project),
                system, project),
            system, project),
        system, project)

\* The entries of a list that mention the GPU.
GPUEntries(reqs) == SelectSeq(reqs, LAMBDA req : StrContains(req, S_GPU))

\* C23: when the project requires a GPU and the system has none, the GPU
\* check subtracts 0.40 and the result has one GPU entry, "Dedicated GPU
\* required", whatever the VRAM values; otherwise it subtracts 0.30 and the
\* result has one GPU entry, the VRAM one, exactly when gpu_vram_gb_min > 0
\* and the system's VRAM is below it; otherwise nothing is subtracted and
\* there is no GPU entry.
C23_GPUGating ==
    \A sr \in ServedResults :
        LET before  == BeforeGPU(sr.system, TheProject)
            after   == CheckGPU(before, sr.system, TheProject)
            entries == GPUEntries(sr.result.MissingRequirements)
        IN  IF TheProject.GPURequired /\ ~sr.system.HasGPU
            THEN /\ after.score = F64Sub(before.score, F_0_4)
                 /\ entries = <<S_GPU_required>>
            ELSE IF TheProject.GPUVRAMGBMin > 0
                    /\ sr.system.GPUVRAMGB < TheProject.GPUVRAMGBMin
            THEN /\ after.score = F64Sub(before.score, F_0_3)
                 /\ Len(entries) = 1
                 /\ SubSeq(entries[1], 1, Len(S_VRAM_need)) = S_VRAM_need
            ELSE /\ after.score = before.score
                 /\ entries = <<>>

\* C23 witness: the project requires a GPU and 8 GB of VRAM, the system has
\* neither, and the result carries the one entry "Dedicated GPU required".
C23_Witness ==
    \E sr \in ServedResults :
        /\ TheProject.GPURequired
        /\ TheProject.GPUVRAMGBMin = 8
        /\ ~sr.system.HasGPU
        /\ sr.system.GPUVRAMGB = 0
        /\ GPUEntries(sr.result.MissingRequirements) = <<S_GPU_required>>

\* C28: every compatible result has a score of at least 0.9 and the rating
\* Excellent, and carries no penalty other than the 0.10 of the RAM
\* recommendation; so a result rated Good, Fair or Poor is incompatible.
C28_CompatibleIsExcellent ==
    \A sr \in ServedResults :
        /\ sr.result.Compatible =>
               /\ F64Geq(sr.result.CompatibilityScore, ScoreExcellent)
               /\ sr.result.PerformanceRating = "Excellent"
               /\ PenaltyHundredths(sr.system, TheProject) \in {0, 10}
        /\ sr.result.PerformanceRating \in {"Good", "Fair", "Poor"}
               => ~sr.result.Compatible

\* C28 witness: a compatible result with the RAM-recommended penalty and no
\* bonus, whose score is exactly 0.9; the same state holds no incompatible
\* result.
C28_Witness ==
    \E sr \in ServedResults :
        /\ sr.result.Compatible
        /\ PenaltyHundredths(sr.system, TheProject) = 10
        /\ UnclampedHundredths(sr.system, TheProject) = 90
        /\ sr.result.CompatibilityScore = ScoreExcellent

\* An incompatible result rated Excellent: its one failure costs 0.20 and
\* its bonuses bring the score back to 0.9 or above.
C28_IncompatibleExcellent ==
    \E sr \in ServedResults :
        /\ ~sr.result.Compatible
        /\ PenaltyHundredths(sr.system, TheProject) = 20
        /\ sr.result.PerformanceRating = "Excellent"

\* The dimension that produced a missing_requirements entry.
EntryDimension(req) ==
    IF SubSeq(req, 1, 10) = SubSeq(S_CPU_need, 1, 10) THEN "CPU"
    ELSE IF SubSeq(req, 1, 4) = SubSeq(S_RAM_need, 1, 4) THEN "RAM"
    ELSE IF SubSeq(req, 1, 8) = SubSeq(S_Storage_need, 1, 8) THEN "storage"
    ELSE IF req = S_SSD_required THEN "SSD"
    ELSE IF req = S_GPU_required THEN "GPU"
    ELSE IF SubSeq(req, 1, 9) = SubSeq(S_VRAM_need, 1, 9) THEN "GPU"
    ELSE IF SubSeq(req, 1, 14) = SubSeq(S_Network_need, 1, 14) THEN "network"
    ELSE IF SubSeq(req, 1, 17) = SubSeq(S_OS_need, 1, 17) THEN "OS"
    ELSE "unknown"

\* The failing dimensions of a system and a project, in the fixed order.
FailingDimensions(system, project) ==
    (IF system.CPUCores < project.CPUCoresMin THEN <<"CPU">> ELSE <<>>)
    \o (IF system.RAMGB < project.RAMGBMin THEN <<"RAM">> ELSE <<>>)
    \o (IF system.StorageGB < project.StorageGBMin
        THEN <<"storage">> ELSE <<>>)
    \o (IF project.StorageType = S_SSD /\ ~system.HasSSD
        THEN <<"SSD">> ELSE <<>>)
    \o (IF \/ project.GPURequired /\ ~system.HasGPU
           \/ project.GPUVRAMGBMin > 0
              /\ system.GPUVRAMGB < project.GPUVRAMGBMin
        THEN <<"GPU">> ELSE <<>>)
    \o (IF system.NetworkMbps < project.NetworkMbpsMin
        THEN <<"network">> ELSE <<>>)
    \o (IF ~OSPasses(system.OS, project.SupportedOS)
        THEN <<"OS">> ELSE <<>>)

\* C29: the missing_requirements of every result hold one entry per failing
\* dimension, in the order CPU, RAM, storage, SSD, GPU, network, OS;
\* compatible is true exactly when the list is empty; the list has at most
\* 7 entries; recommended_upgrades holds the RAM upgrade exactly when the
\* RAM minimum is met and the recommendation is not, and warnings holds the
\* home-use warning exactly when the project is not home friendly.
C29_MissingRequirements ==
    \A sr \in ServedResults :
        /\ [i \in DOMAIN sr.result.MissingRequirements |->
               EntryDimension(sr.result.MissingRequirements[i])]
               = FailingDimensions(sr.system, TheProject)
        /\ sr.result.Compatible <=> sr.result.MissingRequirements = <<>>
        /\ Len(sr.result.MissingRequirements) <= 7
        /\ Len(sr.result.RecommendedUpgrades)
               = IF /\ sr.system.RAMGB >= TheProject.RAMGBMin
                    /\ sr.system.RAMGB < TheProject.RAMGBRecommended
                 THEN 1 ELSE 0
        /\ sr.result.Warnings
               = IF TheProject.HomeFriendly THEN <<>> ELSE <<S_not_home>>

\* C29 witness: a compatible result with an empty missing_requirements, one
\* recommended upgrade (RAM below the recommendation) and the home-use
\* warning.
C29_Witness ==
    \E sr \in ServedResults :
        /\ sr.result.Compatible
        /\ sr.result.MissingRequirements = <<>>
        /\ Len(sr.result.RecommendedUpgrades) = 1
        /\ sr.result.Warnings = <<S_not_home>>

\* The response of the one call served.
TheResponse == served[1].response

\* The list is ordered by non-increasing score.
NonIncreasing(results) ==
    \A i, j \in DOMAIN results :
        i < j => F64Geq(results[i].CompatibilityScore,
                        results[j].CompatibilityScore)

\* The sequences p and q of pairwise different elements hold the same
\* elements.
IsPermutation(p, q) ==
    /\ Len(p) = Len(q)
    /\ {p[i] : i \in DOMAIN p} = {q[i] : i \in DOMAIN q}

\* The results of the loop of PredictCompatibility, before the sorts.
Accumulated == ScoreProjects(service.projects, served[1].system,
                             Len(service.projects))

\* C24: in every response each of compatible_projects and
\* incompatible_projects is ordered by non-increasing score and is a
\* permutation of the results the loop accumulated for it.
C24_SortedLists ==
    served # <<>> =>
        /\ NonIncreasing(TheResponse.CompatibleProjects)
        /\ NonIncreasing(TheResponse.IncompatibleProjects)
        /\ IsPermutation(TheResponse.CompatibleProjects,
                         Accumulated.compatible)
        /\ IsPermutation(TheResponse.IncompatibleProjects,
                         Accumulated.incompatible)

\* C24 witness: both lists hold two results or more, and the sort changed the
\* order of each: the compatible list starts with a score above its last,
\* and the accumulated lists did not.
C24_Witness ==
    /\ served # <<>>
    /\ Len(TheResponse.CompatibleProjects) >= 2
    /\ Len(TheResponse.IncompatibleProjects) >= 2
    /\ TheResponse.CompatibleProjects # Accumulated.compatible
    /\ TheResponse.IncompatibleProjects # Accumulated.incompatible
    /\ ~NonIncreasing(Accumulated.compatible)
    /\ ~NonIncreasing(Accumulated.incompatible)

\* The texts of a list of recommendations.
Texts(recs) == [i \in DOMAIN recs |-> recs[i].text]

\* The overall assessment of c compatible projects out of n, by the
\* fraction c / n.
Tier(c, n) ==
    IF 10 * c >= 8 * n THEN RecExcellent
    ELSE IF 10 * c >= 6 * n THEN RecGood
    ELSE IF 10 * c >= 4 * n THEN RecFair
    ELSE RecLimited

TierTexts == {RecExcellent, RecGood, RecFair, RecLimited}
UpgradeTexts == {RecRAM, RecCPU, RecGPU, RecStorage, RecNetwork}

\* C25: the recommendations start with the overall assessment of the
\* fraction compatible_count / total_projects, no other entry is an overall
\* assessment, the upgrade suggestions follow, and the recommended-projects
\* entry, if any, is last.
C25_OverallAssessment ==
    served # <<>> =>
        LET texts == Texts(TheResponse.Recommendations)
        IN  /\ Len(texts) >= 1
            /\ texts[1] = Tier(TheResponse.Summary.CompatibleCount,
                               TheResponse.Summary.TotalProjects)
            /\ \A i \in 2..Len(texts) :
                   \/ texts[i] \in UpgradeTexts
                   \/ texts[i] = RecProjects /\ i = Len(texts)

\* C25 witness: 4 of 5 projects are compatible and the assessment is the
\* best tier; an upgrade suggestion and the recommended projects follow it.
C25_Witness ==
    /\ served # <<>>
    /\ TheResponse.Summary.CompatibleCount = 4
    /\ TheResponse.Summary.TotalProjects = 5
    /\ Len(TheResponse.Recommendations) = 3
    /\ TheResponse.Recommendations[1].text = RecExcellent
    /\ TheResponse.Recommendations[2].text \in UpgradeTexts
    /\ TheResponse.Recommendations[3].text = RecProjects

\* 3 of 5 compatible is the good tier and 2 of 5 the fair tier.
C25_ThreeOfFive ==
    /\ served # <<>>
    /\ TheResponse.Summary.CompatibleCount = 3
    /\ TheResponse.Summary.TotalProjects = 5
    /\ TheResponse.Recommendations[1].text = RecGood
C25_TwoOfFive ==
    /\ served # <<>>
    /\ TheResponse.Summary.CompatibleCount = 2
    /\ TheResponse.Summary.TotalProjects = 5
    /\ TheResponse.Recommendations[1].text = RecFair

\* The counter a missing_requirements entry increments: the first of RAM,
\* CPU, GPU, Storage or SSD, Network that the entry contains.
CounterOf(req) ==
    CHOOSE counter \in {"ram", "cpu", "gpu", "storage", "network", "none"} :
        \/ counter = "ram" /\ StrContains(req, S_RAM)
        \/ counter = "cpu" /\ ~StrContains(req, S_RAM)
                           /\ StrContains(req, S_CPU)
        \/ counter = "gpu" /\ ~StrContains(req, S_RAM)
                           /\ ~StrContains(req, S_CPU)
                           /\ StrContains(req, S_GPU)
        \/ counter = "storage"
               /\ ~StrContains(req, S_RAM) /\ ~StrContains(req, S_CPU)
               /\ ~StrContains(req, S_GPU)
               /\ (StrContains(req, S_Storage) \/ StrContains(req, S_SSD))
        \/ counter = "network"
               /\ ~StrContains(req, S_RAM) /\ ~StrContains(req, S_CPU)
               /\ ~StrContains(req, S_GPU) /\ ~StrContains(req, S_Storage)
               /\ ~StrContains(req, S_SSD) /\ StrContains(req, S_Network)
        \/ counter = "none"
               /\ ~StrContains(req, S_RAM) /\ ~StrContains(req, S_CPU)
               /\ ~StrContains(req, S_GPU) /\ ~StrContains(req, S_Storage)
               /\ ~StrContains(req, S_SSD) /\ ~StrContains(req, S_Network)

\* The counters the entries of the results increment, result by result.
Counters(results) ==
    [i \in DOMAIN results |->
        [k \in DOMAIN results[i].MissingRequirements |->
            CounterOf(results[i].MissingRequirements[k])]]

\* The number of entries that increment counter: the number of
\* [result index, entry index] pairs of that counter.
EntriesCounted(counters, counter) ==
    Cardinality(
        UNION {{<<i, k>> : k \in {j \in DOMAIN counters[i] :
                                    counters[i][j] = counter}} :
               i \in DOMAIN counters})

\* The upgrade suggestions whose counter is above the threshold
\* floor(incompatible_count / 3), in the order RAM, CPU, GPU, storage,
\* network.
SuggestionsDue(counters) ==
    LET Due(counter, text) ==
            IF EntriesCounted(counters, counter) > Len(counters) \div 3
            THEN <<text>> ELSE <<>>
    IN  Due("ram", RecRAM) \o Due("cpu", RecCPU) \o Due("gpu", RecGPU)
        \o Due("storage", RecStorage) \o Due("network", RecNetwork)

\* The upgrade suggestions of a response, in the order they appear.
Suggestions(response) ==
    SelectSeq(Texts(response.Recommendations),
              LAMBDA text : text \in UpgradeTexts)

\* C26: the upgrade suggestions of every response are those whose counter
\* is above floor(incompatible_count / 3), in the order RAM, CPU, GPU,
\* storage, network, each entry counting for the first of the five words it
\* contains; without incompatible projects there is none.
C26_UpgradeThreshold ==
    served # <<>> =>
        /\ Suggestions(TheResponse)
               = SuggestionsDue(Counters(TheResponse.IncompatibleProjects))
        /\ TheResponse.IncompatibleProjects = <<>>
               => Suggestions(TheResponse) = <<>>

\* C26 witness: four incompatible projects give the threshold 1; the CPU
\* counter is 1 and its suggestion is not emitted, the RAM and storage
\* counters are above 1 and their suggestions are emitted, in that order.
C26_Witness ==
    /\ served # <<>>
    /\ Len(TheResponse.IncompatibleProjects) = 4
    /\ EntriesCounted(Counters(TheResponse.IncompatibleProjects), "cpu") = 1
    /\ EntriesCounted(Counters(TheResponse.IncompatibleProjects), "ram") = 2
    /\ Suggestions(TheResponse) = <<RecRAM, RecStorage>>

\* One incompatible project (threshold 0) with one counted issue gives its
\* suggestion.
C26_SingleIssue ==
    /\ served # <<>>
    /\ Len(TheResponse.IncompatibleProjects) = 1
    /\ Len(TheResponse.IncompatibleProjects[1].MissingRequirements) = 1
    /\ Len(Suggestions(TheResponse)) = 1

\* The recommended-projects entries of a response.
ProjectEntries(response) ==
    SelectSeq(response.Recommendations, LAMBDA rec : rec.text = RecProjects)

\* C27: the response has a recommended-projects entry exactly when its
\* compatible list is not empty; the entry names the first min(3,
\* compatible_count) results of the sorted compatible list, in order, and
\* no compatible project left unnamed has a higher score than a named one.
C27_RecommendedProjects ==
    served # <<>> =>
        LET compatible == TheResponse.CompatibleProjects
            entries    == ProjectEntries(TheResponse)
            count      == IF Len(compatible) < 3 THEN Len(compatible) ELSE 3
        IN  /\ Len(entries) = IF compatible = <<>> THEN 0 ELSE 1
            /\ \A e \in DOMAIN entries :
                   /\ entries[e].names
                          = [i \in 1..count |-> compatible[i].Name]
                   /\ \A i \in 1..count :
                          \A j \in (count + 1)..Len(compatible) :
                              F64Geq(compatible[i].CompatibilityScore,
                                     compatible[j].CompatibilityScore)

\* C27 witness: four compatible projects, of which the one the catalog lists
\* first has the lowest score and is the one not named.
C27_Witness ==
    /\ served # <<>>
    /\ Len(TheResponse.CompatibleProjects) = 4
    /\ Len(ProjectEntries(TheResponse)) = 1
    /\ Len(ProjectEntries(TheResponse)[1].names) = 3
    /\ TheResponse.CompatibleProjects[4].Name = service.projects[1].Name
    /\ F64Lt(TheResponse.CompatibleProjects[4].CompatibilityScore,
             TheResponse.CompatibleProjects[3].CompatibilityScore)

\* The counter of the hardware category of the dimension that produced an
\* entry: GPU for both GPU entries, storage for the capacity and the SSD
\* entries, none for the OS entry.
CounterOfDimension(req) ==
    IF EntryDimension(req) = "RAM" THEN "ram"
    ELSE IF EntryDimension(req) = "CPU" THEN "cpu"
    ELSE IF EntryDimension(req) = "GPU" THEN "gpu"
    ELSE IF EntryDimension(req) \in {"storage", "SSD"} THEN "storage"
    ELSE IF EntryDimension(req) = "network" THEN "network"
    ELSE "none"

\* The counters by dimension of the entries of the results.
CountersByDimension(results) ==
    [i \in DOMAIN results |->
        [k \in DOMAIN results[i].MissingRequirements |->
            CounterOfDimension(results[i].MissingRequirements[k])]]

\* C30: the upgrade suggestions of every response are those of the counters
\* that count each entry under the category of the dimension that produced
\* it; in particular a response whose incompatible results have no RAM
\* entry carries no RAM suggestion.
C30_CountedByDimension ==
    served # <<>> =>
        Suggestions(TheResponse)
            = SuggestionsDue(
                  CountersByDimension(TheResponse.IncompatibleProjects))

=============================================================================
